---- MODULE Spec2Model ----
(***************************************************************************)
(* tapsync: the input-to-render pipeline.                                  *)
(*                                                                         *)
(*   Spec          the application: MainWindow, bridge, overlay            *)
(*   LiveSpec      Spec with the Qt event loop's fairness                  *)
(*   ListenerSpec  InputListener alone, start()/stop() called in any order *)
(*   EditorSpec    the layout editor with the layout loads and the overlay  *)
(*   ThemeSpec     theme edits and resets with the overlay shown or hidden  *)
(*   OverlaySpec   the overlay window shown, moved, hidden and closed       *)
(*   ConfigSpec    configs loaded and saved, the files found or not         *)
(*   InputSpec     InputListener fed every kind of key and button          *)
(*   KeyboardSpec  physical keys and shift, the overlay shown or hidden    *)
(*   DisplaySpec   loads, editor saves and theme edits with the overlay    *)
(*   SnapSpec      the editor's snap check box and theme changes           *)
(*                                                                         *)
(*   listener.py  InputListener: two pynput listeners (keyboard, mouse),   *)
(*                each calling back from its own capture thread            *)
(*   main.py      KeyBridge (a queued Qt signal), MainWindow's overlay     *)
(*                control, layout loading and shutdown                     *)
(*   overlay.py   OverlayWindow: key list and pressed-set                  *)
(*   editor.py    EditorCanvas: working key list, selection, drag, snap;   *)
(*                KeyPropertiesPanel: the edits it sends                   *)
(*                                                                         *)
(* Threads: "kb" and "ms" are the capture threads, "ui" is the Qt thread.  *)
(* A handler that runs on the Qt thread is one action: Qt runs a slot to   *)
(* its end before it takes the next event from the queue.                  *)
(*                                                                         *)
(* Storage: a Python list and the dicts in it are objects. Next to the     *)
(* value of every key list the model keeps the identity of the list object *)
(* and of each dict in it; a write through one reference changes the value *)
(* seen through every other reference to the same object.                  *)
(*                                                                         *)
(* Numbers: a key's x and y are floats in the code. The model keeps them   *)
(* in fixed point, in units of 1/Scale of a grid cell, which is exact for  *)
(* whole pointer pixels; w and h are whole cells.                          *)
(***************************************************************************)
EXTENDS Integers, Sequences, FiniteSets, TLC

VARIABLES
    appState,    \* MainWindow: "init" | "running" | "closing" | "exited"
    started,     \* InputListener._started
    kb,          \* InputListener._kb: "none" (None), "running" (a listener
                 \* that delivers events) or "idle" (a listener that does not:
                 \* it never attached, or it was stopped)
    ms,          \* InputListener._ms, likewise
    nMade,       \* history: listener objects constructed, per input class
    lastCall,    \* history: the last start()/stop() call and what it did
    queue,       \* KeyBridge.key_event: queued signal emissions, oldest first
    emitLog,     \* history: events each capture thread passed to the callback
    handled,     \* history: events _on_key_event has run for, in order, each
                 \* with the overlay instance update_key was called on (or
                 \* NoOverlay), that instance's pressed-set before and after
                 \* the call, and whether the call requested a repaint
    overlay,     \* MainWindow._overlay: an instance number, or NoOverlay
    nInst,       \* OverlayWindow instances constructed so far
    ovState,     \* per instance: "none" | "visible" | "closed"
    ovKeys,      \* per instance: OverlayWindow._keys
    ovPressed,   \* per instance: OverlayWindow._pressed
    reloaded,    \* history: load_keys was the last call on the current overlay
    curKeys,     \* MainWindow._current_keys
    edKeys,      \* EditorCanvas._keys
    edSel,       \* EditorCanvas._selected: a dict object, or NoSel (None)
    accessors,   \* history: threads that have read or written overlay/editor state
    curRef,      \* the list object and dict objects behind curKeys
    edRef,       \* the list object and dict objects behind edKeys
    ovRef,       \* per instance: the objects behind ovKeys
    edDrag,      \* EditorCanvas._drag_key: a dict object, or NoSel (None)
    dragOffset,  \* EditorCanvas._drag_offset, in pixels
    snap,        \* EditorCanvas._snap
    snapBox,     \* EditorTab._snap_cb: the "Snap to grid" check box is checked
    retKeys,     \* history: the list the last get_keys() returned
    retRef,      \* history: the objects behind retKeys
    nOps,        \* history: editor operations so far
    edLast,      \* history: the last editor operation, its arguments and the
                 \* working list and selection it started from
    theme,       \* MainWindow._theme, which is also MainWindow._settings["theme"]
                 \* and the editor's theme
    themeObj,    \* the dict object MainWindow._theme refers to: DefaultObj
                 \* (config.DEFAULT_THEME itself) or OwnObj (a dict of its own)
    defTheme,    \* config.DEFAULT_THEME
    settings,    \* MainWindow._settings: overlay_x, overlay_y, last_config
    ovTheme,     \* per instance: OverlayWindow._theme
    ovSize,      \* per instance: the window's size, as setFixedSize left it
    ovPos,       \* per instance: the window's position on the screen
    presetKeys,  \* presets.BUILTIN_PRESETS[0]["keys"]
    loadFailed   \* history: _load_selected_config got no data from
                 \* load_config the last time it ran

vars == <<appState, started, kb, ms, nMade, lastCall, queue, emitLog, handled,
          overlay, nInst, ovState, ovKeys, ovPressed, curKeys, edKeys, edSel,
          accessors, reloaded, curRef, edRef, ovRef, edDrag, dragOffset, snap,
          snapBox, retKeys, retRef, nOps, edLast, theme, themeObj, defTheme, settings,
          ovTheme, ovSize, ovPos, presetKeys, loadFailed>>

listenerVars == <<started, kb, ms, nMade, lastCall>>
windowVars   == <<ovTheme, ovSize, ovPos>>
overlayVars  == <<overlay, nInst, ovState, ovKeys, ovPressed, reloaded, ovRef,
                  windowVars>>
themeVars    == <<theme, themeObj, defTheme>>
confVars     == <<themeVars, settings, presetKeys, loadFailed>>
editVars     == <<edDrag, dragOffset, snap, snapBox, retKeys, retRef, nOps,
                  edLast>>
layoutVars   == <<curKeys, edKeys, edSel, curRef, edRef, editVars>>

-----------------------------------------------------------------------------
(* Bounds *)

\* events the capture threads emit in one run, both threads together
MaxEvents == 3
\* overlay windows constructed in one run
MaxOverlays == 2
\* editor operations in one run
MaxOps == 2
\* keys in the editor's working list
MaxKeys == 5

-----------------------------------------------------------------------------
(* Values *)

NoOverlay == 0
NoSel == 0
NoAttr == "<none>"

Threads == {"kb", "ms"}
UI == "ui"
Insts == 1..MaxOverlays

\* editor.py: UNIT, GAP, KH, PAD, the values the default theme also holds
UNIT == 44
GAP == 4
KH == 44
PAD == 10

\* the fixed-point denominator of x and y: one grid cell is UNIT + GAP pixels
\* wide and KH + GAP pixels high, the same number
Scale == UNIT + GAP

\* presets._key: a key dict, at cell (x, y), w cells wide
Key(kid, label, x, y, w) ==
    [id |-> kid, label |-> label, x |-> x * Scale, y |-> y * Scale, w |-> w,
     h |-> 1, color |-> NoAttr, text_color |-> NoAttr]

\* BUILTIN_PRESETS[0]["keys"], cut to three keys
PresetKeys == << Key("a", "A", 0, 0, 1), Key("shift", "Shift", 0, 1, 2),
                 Key("mouse_left", "LMB", 3, 0, 1) >>

\* a saved config's keys: the id "a" twice, as the renderer permits, the
\* first of the two keys two cells wide and so under the second, which has
\* colours of its own; and a mouse key with a colour of its own
ConfigKeys ==
    << Key("a", "A", 0, 0, 2),
       [Key("a", "A2", 1, 0, 1) EXCEPT !.color = "#336699",
                                       !.text_color = "#000000"],
       [Key("mouse_left", "LMB", 2, 0, 1) EXCEPT !.color = "#993366"] >>

Layouts == {PresetKeys, ConfigKeys}

\* the name of the saved config that holds ConfigKeys
CfgName == "layout"

\* the name the user gives in the dialogs that save a config
SaveName == "custom"

\* config.DEFAULT_THEME: the entries the overlay's geometry, opacity and
\* colours come from; overlay_alpha in hundredths
DefaultTheme ==
    [key_unit_px |-> 44, key_gap_px |-> 4, key_height_px |-> 44,
     overlay_alpha |-> 93, key_idle |-> "#2a2a3a", key_pressed |-> "#7b68ee",
     mouse_idle |-> "#1e3a5f", mouse_pressed |-> "#1e90ff",
     key_text |-> "#ffffff", snap_to_grid |-> TRUE]

\* the theme of an overlay instance that does not exist
NoTheme ==
    [key_unit_px |-> 0, key_gap_px |-> 0, key_height_px |-> 0,
     overlay_alpha |-> 0, key_idle |-> "", key_pressed |-> "",
     mouse_idle |-> "", mouse_pressed |-> "", key_text |-> "",
     snap_to_grid |-> FALSE]

\* the two dict objects MainWindow._theme can be
DefaultObj == "DEFAULT_THEME"
OwnObj == "own"

\* config.DEFAULT_SETTINGS without its "theme" entry
DefaultSettings ==
    [overlay_x |-> 100, overlay_y |-> 100, last_config |-> NoAttr]

Max(a, b) == IF a >= b THEN a ELSE b

-----------------------------------------------------------------------------
(* Storage: list objects and dict objects *)

Range(seq) == { seq[i] : i \in DOMAIN seq }

\* a list object lst holding the dict objects objs, in order
Store(lst, objs) == [lst |-> lst, objs |-> objs]
\* no list
NoStore == Store(0, <<>>)

\* Objects are numbered by the place that makes them, so that the numbers
\* do not depend on what was made and dropped before: the callers of
\* _load_layout (a preset, a parsed config file), _load_layout's copy, the
\* editor (load_keys' copy, add_key's dict, delete_selected's list) and
\* get_keys' copy.
CallerSite == 1
CurSite == 2
EdSite == 3
RetSite == 4

\* numbers each site has; more than the objects of a site that ever exist
\* together
Stride == 4 * MaxKeys
Obj(site, k) == (site - 1) * Stride + k

\* a new object of site: the lowest of its numbers that no object in used has
LowestFree(site, used) ==
    Obj(site, CHOOSE k \in 1..Stride :
                  Obj(site, k) \notin used
                  /\ \A q \in 1..(k - 1) : Obj(site, q) \in used)

\* n new objects of site
RECURSIVE NewObjs(_, _, _)
NewObjs(site, n, used) ==
    IF n = 0 THEN <<>>
    ELSE LET r == LowestFree(site, used)
         IN <<r>> \o NewObjs(site, n - 1, used \cup {r})

\* a copy that is the list itself
DeepCopyAlias(site, st, usedObjs, usedLists) == st

\* copy.deepcopy(list) at site: a new list object of new dict objects; a dict
\* that occurs twice in the list is copied once (deepcopy's memo)
DeepCopy(site, st, usedObjs, usedLists) ==
    LET fresh == NewObjs(site, Len(st.objs), usedObjs)
        First(i) == CHOOSE j \in 1..i :
                        st.objs[j] = st.objs[i]
                        /\ \A q \in 1..(j - 1) : st.objs[q] # st.objs[i]
    IN Store(LowestFree(site, usedLists),
             [i \in 1..Len(st.objs) |-> fresh[First(i)]])

\* the dict d after "d[f] = v" for every f |-> v of upd
Patch(d, upd) ==
    [f \in DOMAIN d \cup DOMAIN upd |-> IF f \in DOMAIN upd THEN upd[f] ELSE d[f]]

\* a write that reaches every dict of the list
WriteInAll(keys, objs, r, upd) == [i \in DOMAIN keys |-> Patch(keys[i], upd)]

\* the value of a key list held through objs after the dict object r is
\* written with upd
WriteIn(keys, objs, r, upd) ==
    [i \in DOMAIN keys |-> IF objs[i] = r THEN Patch(keys[i], upd) ELSE keys[i]]

\* the value of dict object r as the editor's list shows it
EdValue(r) == edKeys[CHOOSE i \in DOMAIN edKeys : edRef.objs[i] = r]

\* the objects the window and the overlays refer to
ShownObjs == Range(curRef.objs) \cup UNION { Range(ovRef[i].objs) : i \in Insts }
ShownLists == {curRef.lst} \cup { ovRef[i].lst : i \in Insts }

\* the objects some variable other than the editor's refers to
OtherObjs == ShownObjs \cup Range(retRef.objs)
OtherLists == ShownLists \cup {retRef.lst}

\* two lists share storage: the list object, or a dict object in both
Shares(a, b) ==
    \/ (a.lst = b.lst /\ a # NoStore)
    \/ Range(a.objs) \cap Range(b.objs) # {}

\* BUILTIN_PRESETS[0]["keys"] as a list object
PresetStore ==
    Store(LowestFree(CallerSite, {}), NewObjs(CallerSite, Len(PresetKeys), {}))

\* _load_layout and MainWindow.__init__:
\* "self._current_keys = copy.deepcopy(keys)"
CurrentKeysCopy(st, usedObjs, usedLists) ==
    DeepCopy(CurSite, st, usedObjs, usedLists)

\* a load_keys that keeps the caller's list and dicts
LoadKeysCopyAlias(st, usedObjs, usedLists) == st

\* EditorCanvas.load_keys: "self._keys = copy.deepcopy(keys)"
LoadKeysCopy(st, usedObjs, usedLists) ==
    DeepCopy(EdSite, st, usedObjs, usedLists)

\* a get_keys that hands out the working list itself
GetKeysCopyAlias(st, usedObjs, usedLists) == st

\* EditorCanvas.get_keys: "return copy.deepcopy(self._keys)"
GetKeysCopy(st, usedObjs, usedLists) ==
    DeepCopy(RetSite, st, usedObjs, usedLists)

\* OverlayWindow.__init__ and load_keys: "self._keys = keys", the caller's
\* list itself
OverlayKeys(st) == st

\* the editor operation record of load_keys
LoadOp == [op |-> "load"]

-----------------------------------------------------------------------------
(* listener.py: normalisation *)

\* str.lower() on the strings the raw keys below carry
Lower(s) ==
    CASE s = "A" -> "a"
      [] s = "Shift" -> "shift"
      [] OTHER -> s

\* Raw pynput keys. A KeyCode has .char and no .name; a Key (enum member) has
\* .name and no .char.
KeyCodeA == [cls |-> "KeyCode", char |-> "A", name |-> NoAttr, str |-> "'A'"]
\* the keys the keyboard thread reports in a run
RawKbKeys == { KeyCodeA }
RawButtons == { [name |-> "left"] }

\* the kinds of key pynput reports: a KeyCode with a character, a Key with
\* a name (Key.shift), and a KeyCode that has only a virtual key code, whose
\* .char is None and whose str() is "<vk>"
AllKbKeys ==
    { KeyCodeA,
      [cls |-> "Key", char |-> NoAttr, name |-> "shift", str |-> "Key.shift"],
      [cls |-> "KeyCode", char |-> NoAttr, name |-> NoAttr, str |-> "<65437>"] }
\* pynput's mouse.Button members
AllButtons == { [name |-> "left"], [name |-> "middle"], [name |-> "right"] }

\* _normalize(key)
Normalize(key) ==
    IF key.cls = "KeyCode" /\ key.char # NoAttr /\ key.char # ""
    THEN Lower(key.char)
    ELSE Lower(IF key.name # NoAttr /\ key.name # "" THEN key.name ELSE key.str)

\* _on_click: f"mouse_{button.name}"
MouseId(button) == "mouse_" \o button.name

-----------------------------------------------------------------------------
(* listener.py: start() and stop() *)

AttachOutcomes == {"ok", "ctor_raises", "start_raises"}
StopOutcomes   == {"ok", "raises"}

\* One try body of start(): construct the pynput listener, assign it, start it.
Attach(cur, out) ==
    CASE out = "ok"           -> [l |-> "running", exc |-> FALSE, made |-> 1]
      [] out = "start_raises" -> [l |-> "idle",    exc |-> TRUE,  made |-> 1]
      [] out = "ctor_raises"  -> [l |-> cur,       exc |-> TRUE,  made |-> 0]

\* a handler that lets the exception out of start()
StartExceptMissing(exc) == exc

\* start()'s "except Exception": TRUE iff the exception leaves the try statement
StartExcept(exc) == FALSE

\* a guard that never sees the listener as started
AlreadyStartedNever == FALSE

\* start()'s "if self._started"
AlreadyStarted == started

\* start(): the listener's fields after the call, and what the call did
StartResult(kbOut, msOut) ==
    IF AlreadyStarted
    THEN [kb |-> kb, ms |-> ms, started |-> started, raised |-> FALSE,
          ignored |-> TRUE, kbTried |-> FALSE, msTried |-> FALSE,
          kbExc |-> FALSE, msExc |-> FALSE, kbMade |-> 0, msMade |-> 0]
    ELSE LET k == Attach(kb, kbOut) IN
         IF StartExcept(k.exc)
         THEN [kb |-> k.l, ms |-> ms, started |-> started, raised |-> TRUE,
               ignored |-> FALSE, kbTried |-> TRUE, msTried |-> FALSE,
               kbExc |-> k.exc, msExc |-> FALSE, kbMade |-> k.made, msMade |-> 0]
         ELSE LET m == Attach(ms, msOut) IN
              IF StartExcept(m.exc)
              THEN [kb |-> k.l, ms |-> m.l, started |-> started, raised |-> TRUE,
                    ignored |-> FALSE, kbTried |-> TRUE, msTried |-> TRUE,
                    kbExc |-> k.exc, msExc |-> m.exc,
                    kbMade |-> k.made, msMade |-> m.made]
              ELSE [kb |-> k.l, ms |-> m.l, started |-> TRUE, raised |-> FALSE,
                    ignored |-> FALSE, kbTried |-> TRUE, msTried |-> TRUE,
                    kbExc |-> k.exc, msExc |-> m.exc,
                    kbMade |-> k.made, msMade |-> m.made]

\* The loop body of stop() for one listener: "if l: try: l.stop()"
StopOne(l, out) ==
    IF l = "none" THEN [l |-> l, exc |-> FALSE, tried |-> FALSE]
    ELSE IF out = "ok" THEN [l |-> "idle", exc |-> FALSE, tried |-> TRUE]
    ELSE [l |-> l, exc |-> TRUE, tried |-> TRUE]

\* a handler that lets the exception out of stop()
StopExceptMissing(exc) == exc

\* stop()'s "except Exception": TRUE iff the exception leaves the try statement
StopExcept(exc) == FALSE

\* stop(): the listener's fields after the call, and what the call did
StopResult(kbOut, msOut) ==
    LET k == StopOne(kb, kbOut) IN
    IF StopExcept(k.exc)
    THEN [kb |-> k.l, ms |-> ms, raised |-> TRUE,
          kbTried |-> k.tried, msTried |-> FALSE,
          kbExc |-> k.exc, msExc |-> FALSE]
    ELSE LET m == StopOne(ms, msOut) IN
         [kb |-> k.l, ms |-> m.l, raised |-> StopExcept(m.exc),
          kbTried |-> k.tried, msTried |-> m.tried,
          kbExc |-> k.exc, msExc |-> m.exc]

NoCall == [op |-> "none", raised |-> FALSE, ignored |-> FALSE,
           kbTried |-> FALSE, msTried |-> FALSE,
           kbExc |-> FALSE, msExc |-> FALSE,
           kbBefore |-> "none", msBefore |-> "none"]

\* the listener's variables after start()
ApplyStart(kbOut, msOut) ==
    LET r == StartResult(kbOut, msOut) IN
    /\ kb' = r.kb
    /\ ms' = r.ms
    /\ started' = r.started
    /\ nMade' = [nMade EXCEPT !["kb"] = @ + r.kbMade, !["ms"] = @ + r.msMade]
    /\ lastCall' = [op |-> "start", raised |-> r.raised, ignored |-> r.ignored,
                    kbTried |-> r.kbTried, msTried |-> r.msTried,
                    kbExc |-> r.kbExc, msExc |-> r.msExc,
                    kbBefore |-> kb, msBefore |-> ms]

\* the listener's variables after stop()
ApplyStop(kbOut, msOut) ==
    LET r == StopResult(kbOut, msOut) IN
    /\ kb' = r.kb
    /\ ms' = r.ms
    /\ UNCHANGED <<started, nMade>>
    /\ lastCall' = [op |-> "stop", raised |-> r.raised, ignored |-> FALSE,
                    kbTried |-> r.kbTried, msTried |-> r.msTried,
                    kbExc |-> r.kbExc, msExc |-> r.msExc,
                    kbBefore |-> kb, msBefore |-> ms]

-----------------------------------------------------------------------------
(* overlay.py: update_key *)

\* a release branch that toggles instead of discarding
UpdateKeySetToggle(P, kid, isPressed) ==
    IF isPressed THEN P \cup {kid}
    ELSE IF kid \in P THEN P \ {kid} ELSE P \cup {kid}

\* update_key: the pressed-set after the call
UpdateKeySet(P, kid, isPressed) ==
    IF isPressed /\ kid \notin P THEN P \cup {kid}
    ELSE IF ~isPressed /\ kid \in P THEN P \ {kid}
    ELSE P

\* a repaint on every call
UpdateKeyChangedAlways(P, kid, isPressed) == TRUE

\* update_key: "changed", the condition of self.update()
UpdateKeyChanged(P, kid, isPressed) ==
    IF isPressed /\ kid \notin P THEN TRUE
    ELSE IF ~isPressed /\ kid \in P THEN TRUE
    ELSE FALSE

-----------------------------------------------------------------------------
(* main.py: the bridge and the key-event slot *)

\* a connection that always runs the slot in the emitting thread
DeliveryDirect(emitter, receiver) == "direct"

\* bridge.key_event.connect(self._on_key_event): Qt's AutoConnection runs the
\* slot at once when the signal is emitted from the receiver's thread and
\* posts it to the receiver's event queue otherwise
Delivery(emitter, receiver) ==
    IF emitter = receiver THEN "direct" ELSE "queued"

\* a queue that merges an emission into a waiting one for the same key
EnqueueCoalesce(q, ev) ==
    IF q # <<>> /\ q[Len(q)].id = ev.id
    THEN [q EXCEPT ![Len(q)] = ev]
    ELSE Append(q, ev)

\* key_event.emit across threads: the call is appended to the receiver
\* thread's event queue
Enqueue(q, ev) == Append(q, ev)

\* a bridge with room for one waiting emission
BridgeReadyBounded(q) == Len(q) < 1

\* key_event.emit returns without waiting for the slot, whatever is queued
BridgeReady(q) == TRUE

\* a slot wired to the last overlay constructed, closed or not
KeyEventTargetStale == nInst

\* _on_key_event: "if self._overlay and self._overlay.isVisible()"
KeyEventTarget ==
    IF overlay # NoOverlay /\ ovState[overlay] = "visible" THEN overlay
    ELSE NoOverlay

\* _on_key_event run by thread thr for event ev
RunKeyEvent(ev, thr) ==
    LET tgt == KeyEventTarget IN
    IF tgt # NoOverlay
    THEN /\ ovPressed' = [ovPressed EXCEPT
                            ![tgt] = UpdateKeySet(@, ev.id, ev.pressed)]
         /\ handled' = Append(handled,
                [src |-> ev.src, id |-> ev.id, pressed |-> ev.pressed,
                 target |-> tgt, before |-> ovPressed[tgt],
                 after |-> UpdateKeySet(ovPressed[tgt], ev.id, ev.pressed),
                 repaint |-> UpdateKeyChanged(ovPressed[tgt], ev.id, ev.pressed)])
         /\ accessors' = accessors \cup {thr}
         /\ reloaded' = FALSE
    ELSE /\ handled' = Append(handled,
                [src |-> ev.src, id |-> ev.id, pressed |-> ev.pressed,
                 target |-> NoOverlay, before |-> {}, after |-> {},
                 repaint |-> FALSE])
         /\ UNCHANGED <<ovPressed, accessors, reloaded>>

ListenerOf(c) == IF c = "kb" THEN kb ELSE ms

\* _listener_cb(key_id, pressed) called by capture thread c
ListenerCb(c, kid, isPressed) ==
    LET ev == [src |-> c, id |-> kid, pressed |-> isPressed] IN
    /\ BridgeReady(queue)
    /\ emitLog' = [emitLog EXCEPT ![c] = Append(@, ev)]
    /\ IF Delivery(c, UI) = "queued"
       THEN /\ queue' = Enqueue(queue, ev)
            /\ UNCHANGED <<handled, ovPressed, accessors, reloaded>>
       ELSE /\ queue' = queue
            /\ RunKeyEvent(ev, c)

\* pynput calls on_press/on_release or on_click in capture thread c
CanEmit(c) ==
    /\ ListenerOf(c) = "running"
    /\ appState # "exited"
    /\ Len(emitLog["kb"]) + Len(emitLog["ms"]) < MaxEvents

\* _on_kb_press / _on_kb_release
EmitKb(key, isPressed) ==
    /\ CanEmit("kb")
    /\ LET kid == Normalize(key) IN
       IF kid # ""
       THEN ListenerCb("kb", kid, isPressed)
       ELSE UNCHANGED <<emitLog, queue, handled, ovPressed, accessors, reloaded>>
    /\ UNCHANGED <<appState, listenerVars, overlay, nInst, ovState, ovKeys,
                   ovRef, windowVars, layoutVars, confVars>>

\* _on_click
EmitMs(button, isPressed) ==
    /\ CanEmit("ms")
    /\ ListenerCb("ms", MouseId(button), isPressed)
    /\ UNCHANGED <<appState, listenerVars, overlay, nInst, ovState, ovKeys,
                   ovRef, windowVars, layoutVars, confVars>>

Emit ==
    \/ \E key \in RawKbKeys, p \in BOOLEAN : EmitKb(key, p)
    \/ \E b \in RawButtons, p \in BOOLEAN : EmitMs(b, p)

-----------------------------------------------------------------------------
(* overlay.py: geometry and colours. A key's x and y are in 1/Scale of a   *)
(* cell, so "k["x"] * (unit + gap)" is the product over Scale; it is exact *)
(* for a key on whole cells under any theme, and for any key under a theme *)
(* whose cell is Scale pixels.                                             *)

\* "PAD = 10" in _compute_geometry and in paintEvent
OverlayPad == 10

\* a rectangle that takes a gap after every cell of the key
PaintRectGapPerCell(k, t) ==
    [x |-> OverlayPad + (k.x * (t.key_unit_px + t.key_gap_px)) \div Scale,
     y |-> OverlayPad + (k.y * (t.key_height_px + t.key_gap_px)) \div Scale,
     w |-> k.w * (t.key_unit_px + t.key_gap_px),
     h |-> k.h * (t.key_height_px + t.key_gap_px)]

\* paintEvent: px, py, pw, ph of key k under theme t
PaintRect(k, t) ==
    [x |-> OverlayPad + (k.x * (t.key_unit_px + t.key_gap_px)) \div Scale,
     y |-> OverlayPad + (k.y * (t.key_height_px + t.key_gap_px)) \div Scale,
     w |-> k.w * t.key_unit_px + (k.w - 1) * t.key_gap_px,
     h |-> k.h * t.key_height_px + (k.h - 1) * t.key_gap_px]

\* _compute_geometry: rx and ry of key k
Extent(k, t) ==
    <<(k.x * (t.key_unit_px + t.key_gap_px)) \div Scale
          + k.w * t.key_unit_px + (k.w - 1) * t.key_gap_px,
      (k.y * (t.key_height_px + t.key_gap_px)) \div Scale
          + k.h * t.key_height_px + (k.h - 1) * t.key_gap_px>>

\* _compute_geometry: max_x (axis 1) or max_y (axis 2), a maximum that
\* starts from 0
MaxExtent(keys, t, axis) ==
    LET all == { Extent(keys[i], t)[axis] : i \in DOMAIN keys } \cup {0}
    IN CHOOSE m \in all : \A n \in all : n <= m

\* _compute_geometry: the size handed to setFixedSize
ComputeGeometry(keys, t) ==
    <<MaxExtent(keys, t, 1) + OverlayPad * 2,
      MaxExtent(keys, t, 2) + OverlayPad * 2>>

\* str.startswith
StartsWith(s, prefix) ==
    Len(s) >= Len(prefix) /\ SubSeq(s, 1, Len(prefix)) = prefix

\* _hex(color, fallback): the colour named, or the fallback when none is
Hex(color, fallback) ==
    IF color # NoAttr /\ color # "" THEN color ELSE fallback

\* a background that keeps a key's own colour while it is pressed
BgColorOwnFirst(k, isPressed, t) ==
    IF k.color # NoAttr /\ k.color # "" THEN Hex(k.color, t.key_idle)
    ELSE IF isPressed
         THEN (IF StartsWith(k.id, "mouse_") THEN t.mouse_pressed
               ELSE t.key_pressed)
         ELSE (IF StartsWith(k.id, "mouse_") THEN t.mouse_idle
               ELSE t.key_idle)

\* paintEvent: bg_color of key k
BgColor(k, isPressed, t) ==
    LET is_mouse == StartsWith(k.id, "mouse_") IN
    IF isPressed
    THEN IF is_mouse THEN Hex(NoAttr, t.mouse_pressed)
         ELSE Hex(NoAttr, t.key_pressed)
    ELSE IF k.color # NoAttr /\ k.color # ""
         THEN Hex(k.color, t.key_idle)
         ELSE IF is_mouse THEN Hex(NoAttr, t.mouse_idle)
              ELSE Hex(NoAttr, t.key_idle)

\* paintEvent: text_color of key k
TextColor(k, t) ==
    IF k.text_color # NoAttr /\ k.text_color # ""
    THEN Hex(k.text_color, t.key_text)
    ELSE Hex(NoAttr, t.key_text)

\* a paint that shows a pressed id on the first key that has it only
PaintPressedFirst(i, n) ==
    /\ ovKeys[i][n].id \in ovPressed[i]
    /\ \A m \in 1..(n - 1) : ovKeys[i][m].id # ovKeys[i][n].id

\* paintEvent: "pressed = kid in self._pressed" for the n-th key
PaintPressed(i, n) == ovKeys[i][n].id \in ovPressed[i]

\* paintEvent on instance i: for each key, in list order, whether it is
\* drawn pressed, its colours and its rectangle
Paint(i) ==
    [n \in DOMAIN ovKeys[i] |->
        LET k == ovKeys[i][n]
            pressed == PaintPressed(i, n)
        IN [pressed |-> pressed,
            bg |-> BgColor(k, pressed, ovTheme[i]),
            text |-> TextColor(k, ovTheme[i]),
            rect |-> PaintRect(k, ovTheme[i])]]

-----------------------------------------------------------------------------
(* The state in MainWindow.__init__ after InputListener(), KeyBridge() and  *)
(* the tabs are built (the editor holds the first preset), before the      *)
(* listener is started.                                                    *)

\* what __init__ has built: bridge, no overlay, the first preset as the
\* current layout and in the editor
InitWindow ==
    /\ queue = <<>>
    /\ emitLog = [c \in Threads |-> <<>>]
    /\ handled = <<>>
    /\ overlay = NoOverlay
    /\ nInst = 0
    /\ ovState = [i \in Insts |-> "none"]
    /\ ovKeys = [i \in Insts |-> <<>>]
    /\ ovPressed = [i \in Insts |-> {}]
    /\ curKeys = PresetKeys
    /\ edKeys = PresetKeys
    /\ edSel = NoSel
    /\ reloaded = FALSE
    /\ accessors = {UI}
    /\ curRef = CurrentKeysCopy(PresetStore, Range(PresetStore.objs),
                                {PresetStore.lst})
    /\ edRef = LoadKeysCopy(curRef,
                            Range(PresetStore.objs) \cup Range(curRef.objs),
                            {PresetStore.lst, curRef.lst})
    /\ ovRef = [i \in Insts |-> NoStore]
    /\ edDrag = NoSel
    /\ dragOffset = <<0, 0>>
    /\ snap = TRUE
    /\ snapBox = TRUE
    /\ retKeys = <<>>
    /\ retRef = NoStore
    /\ nOps = 0
    /\ edLast = LoadOp
    /\ ovTheme = [i \in Insts |-> NoTheme]
    /\ ovSize = [i \in Insts |-> <<0, 0>>]
    /\ ovPos = [i \in Insts |-> <<0, 0>>]
    /\ presetKeys = PresetKeys
    /\ loadFailed = FALSE

\* config.load_settings and "self._theme = self._settings.get("theme", ...)":
\* with a settings file that parses, the theme is a dict of its own, a copy
\* of DEFAULT_THEME updated from the file (here a file that holds the
\* default values and names last as the last config); with no file, or one
\* that does not parse, the settings are dict(DEFAULT_SETTINGS), whose
\* "theme" entry is DEFAULT_THEME itself
LoadSettings(fromFile, last) ==
    /\ defTheme = DefaultTheme
    /\ theme = DefaultTheme
    /\ themeObj = (IF fromFile THEN OwnObj ELSE DefaultObj)
    /\ settings = [DefaultSettings EXCEPT
                      !.last_config = IF fromFile THEN last ELSE NoAttr]

\* the settings file exists and names a last config
Init ==
    /\ appState = "init"
    /\ started = FALSE
    /\ kb = "none"
    /\ ms = "none"
    /\ nMade = [c \in Threads |-> 0]
    /\ lastCall = NoCall
    /\ InitWindow
    /\ LoadSettings(TRUE, CfgName)

\* The state when MainWindow.__init__ has returned with both listeners
\* attached and the last config not found: the window is up and the editor
\* can be used.
EditorInit ==
    /\ appState = "running"
    /\ started = TRUE
    /\ kb = "running"
    /\ ms = "running"
    /\ nMade = [c \in Threads |-> 1]
    /\ lastCall = [NoCall EXCEPT !.op = "start", !.kbTried = TRUE,
                                 !.msTried = TRUE]
    /\ InitWindow
    /\ LoadSettings(TRUE, CfgName)

\* The same, the settings read from a file or defaulted for want of one.
PanelInit ==
    /\ appState = "running"
    /\ started = TRUE
    /\ kb = "running"
    /\ ms = "running"
    /\ nMade = [c \in Threads |-> 1]
    /\ lastCall = [NoCall EXCEPT !.op = "start", !.kbTried = TRUE,
                                 !.msTried = TRUE]
    /\ InitWindow
    /\ \E fromFile \in BOOLEAN : LoadSettings(fromFile, CfgName)

-----------------------------------------------------------------------------
(* InputListener driven by any caller: start() and stop() in any order     *)

Start ==
    \E kbOut \in AttachOutcomes, msOut \in AttachOutcomes :
        /\ ApplyStart(kbOut, msOut)
        /\ UNCHANGED <<appState, queue, emitLog, handled, overlayVars,
                       layoutVars, accessors, confVars>>

Stop ==
    \E kbOut \in StopOutcomes, msOut \in StopOutcomes :
        /\ ApplyStop(kbOut, msOut)
        /\ UNCHANGED <<appState, queue, emitLog, handled, overlayVars,
                       layoutVars, accessors, confVars>>

ListenerNext == Start \/ Stop \/ Emit

ListenerSpec == Init /\ [][ListenerNext]_vars

\* the capture threads reporting any kind of key and any button
EmitAny ==
    \/ \E key \in AllKbKeys, p \in BOOLEAN : EmitKb(key, p)
    \/ \E b \in AllButtons, p \in BOOLEAN : EmitMs(b, p)

\* InputListener alone, fed every kind of raw event
InputNext == Start \/ EmitAny

InputSpec == Init /\ [][InputNext]_vars

-----------------------------------------------------------------------------
(* main.py: the application on the Qt thread *)

\* EditorTab._on_save: "keys = self.canvas.get_keys()", the editor's working
\* list copied into new objects
GetKeysResult ==
    GetKeysCopy(edRef, ShownObjs \cup Range(edRef.objs) \cup {edSel, edDrag},
                ShownLists \cup {edRef.lst})
\* an _on_save that emits an empty list
GetKeysNothing ==
    /\ retKeys' = <<>>
    /\ retRef' = NoStore

GetKeys ==
    /\ retKeys' = edKeys
    /\ retRef' = GetKeysResult

\* EditorCanvas.load_keys(keys), called through EditorTab.load_keys, keys
\* being the list st; usedObjs and usedLists are the objects that exist
EditorLoadKeys(keys, st, usedObjs, usedLists) ==
    /\ edKeys' = keys
    /\ edRef' = LoadKeysCopy(st, usedObjs, usedLists)
    /\ edSel' = NoSel
    /\ edLast' = LoadOp
    /\ UNCHANGED <<edDrag, dragOffset, snap, snapBox, nOps>>

\* a load_keys that leaves the window's size as it was
LoadKeysGeometryKept(i, keys) == ovSize[i]

\* load_keys: "self._compute_geometry()" with the new keys
LoadKeysGeometry(i, keys) == ComputeGeometry(keys, ovTheme[i])

\* OverlayWindow.load_keys(keys) on instance i: the key list is replaced,
\* _pressed is not assigned, the size is computed again
OverlayLoadKeys(i, keys, st) ==
    /\ ovKeys' = [ovKeys EXCEPT ![i] = keys]
    /\ ovRef' = [ovRef EXCEPT ![i] = OverlayKeys(st)]
    /\ ovPressed' = ovPressed
    /\ ovSize' = [ovSize EXCEPT ![i] = LoadKeysGeometry(i, keys)]
    /\ UNCHANGED <<ovTheme, ovPos>>

\* the list a caller of _load_layout passes when it comes from a preset or a
\* config file: objects of its own
CallerList(keys) ==
    Store(LowestFree(CallerSite, {retRef.lst, PresetStore.lst}),
          NewObjs(CallerSite, Len(keys),
                  Range(retRef.objs) \cup Range(PresetStore.objs)
                      \cup {edDrag}))

\* _load_layout(keys, name): a copy of keys becomes the current layout, the
\* editor loads it, and a visible overlay is handed the same list. The lists
\* the three held before are dropped; what get_keys() returned and a key
\* still being dragged stay.
DoLoadLayout(keys, st) ==
    LET keptObjs == Range(retRef.objs) \cup Range(st.objs) \cup {edDrag}
        keptLists == {retRef.lst, st.lst}
        cur == CurrentKeysCopy(st, keptObjs, keptLists)
    IN /\ curKeys' = keys
       /\ curRef' = cur
       /\ EditorLoadKeys(keys, cur, keptObjs \cup Range(cur.objs),
                         keptLists \cup {cur.lst})
       /\ IF overlay # NoOverlay /\ ovState[overlay] = "visible"
          THEN OverlayLoadKeys(overlay, keys, cur) /\ reloaded' = TRUE
          ELSE UNCHANGED <<ovKeys, ovRef, ovPressed, reloaded, windowVars>>

\* MainWindow.__init__ from "Start listener" on: start() inside try/except,
\* then the last config, if the settings name one and load_config finds
\* it, through _load_layout with no overlay yet
MainWindowInit ==
    /\ appState = "init"
    /\ \E kbOut \in AttachOutcomes, msOut \in AttachOutcomes :
           ApplyStart(kbOut, msOut)
    /\ \E found \in BOOLEAN :
           IF settings.last_config # NoAttr /\ found
           THEN /\ DoLoadLayout(ConfigKeys, CallerList(ConfigKeys))
                /\ UNCHANGED <<retKeys, retRef>>
           ELSE UNCHANGED <<layoutVars, ovKeys, ovRef, ovPressed, reloaded,
                            windowVars>>
    /\ appState' = "running"
    /\ UNCHANGED <<queue, emitLog, handled, overlay, nInst, ovState, accessors,
                   confVars>>

\* OverlayWindow.close() on instance i: closeEvent emits closed and
\* _on_overlay_closed clears MainWindow._overlay, the last reference to the
\* window, whose key list and pressed-set go with it
CloseInstance(i) ==
    /\ ovState' = [ovState EXCEPT ![i] = "closed"]
    /\ ovKeys' = [ovKeys EXCEPT ![i] = <<>>]
    /\ ovRef' = [ovRef EXCEPT ![i] = NoStore]
    /\ ovPressed' = [ovPressed EXCEPT ![i] = {}]
    /\ ovTheme' = [ovTheme EXCEPT ![i] = NoTheme]
    /\ ovSize' = [ovSize EXCEPT ![i] = <<0, 0>>]
    /\ ovPos' = [ovPos EXCEPT ![i] = <<0, 0>>]

\* a window that starts with the keys the keyboard thread reported down
InitialPressedFromLog ==
    { emitLog["kb"][j].id :
          j \in { q \in DOMAIN emitLog["kb"] : emitLog["kb"][q].pressed } }

\* OverlayWindow.__init__: "self._pressed: set[str] = set()"
InitialPressed == {}

\* _show_overlay, entered with no overlay (the toggle shows only then):
\* the window is built on the current key list with a copy of the theme,
\* sized, moved to the position the settings hold, and shown; an exception
\* in that is logged and leaves no window
ShowOverlay(ctorOk) ==
    IF ctorOk
    THEN /\ nInst < MaxOverlays
         /\ nInst' = nInst + 1
         /\ overlay' = nInst + 1
         /\ ovState' = [ovState EXCEPT ![nInst + 1] = "visible"]
         /\ ovKeys' = [ovKeys EXCEPT ![nInst + 1] = curKeys]
         /\ ovRef' = [ovRef EXCEPT ![nInst + 1] = OverlayKeys(curRef)]
         /\ ovPressed' = [ovPressed EXCEPT ![nInst + 1] = InitialPressed]
         /\ ovTheme' = [ovTheme EXCEPT ![nInst + 1] = theme]
         /\ ovSize' = [ovSize EXCEPT ![nInst + 1] =
                          ComputeGeometry(curKeys, theme)]
         /\ ovPos' = [ovPos EXCEPT ![nInst + 1] =
                         <<settings.overlay_x, settings.overlay_y>>]
         /\ reloaded' = FALSE
         /\ UNCHANGED settings
    ELSE UNCHANGED <<overlayVars, settings>>

\* _hide_overlay: "pos = self._overlay.pos()" into overlay_x and overlay_y
HidePosition ==
    [settings EXCEPT !.overlay_x = ovPos[overlay][1],
                     !.overlay_y = ovPos[overlay][2]]

\* _hide_overlay: the position is recorded, the window closed
HideOverlay ==
    /\ IF overlay # NoOverlay
       THEN /\ settings' = HidePosition
            /\ CloseInstance(overlay)
       ELSE UNCHANGED <<ovState, ovKeys, ovRef, ovPressed, windowVars,
                        settings>>
    /\ overlay' = NoOverlay
    /\ reloaded' = FALSE
    /\ UNCHANGED nInst

\* a toggle that shows whatever the overlay's state
ToggleShowsAlways == TRUE

\* _toggle_overlay: "if self._overlay is None or not
\* self._overlay.isVisible()"
ToggleShows == overlay = NoOverlay \/ ovState[overlay] # "visible"

\* _toggle_overlay
ToggleOverlay ==
    /\ appState = "running"
    /\ \E ctorOk \in BOOLEAN :
           IF ToggleShows
           THEN ShowOverlay(ctorOk)
           ELSE HideOverlay
    /\ UNCHANGED <<appState, listenerVars, queue, emitLog, handled, layoutVars,
                   accessors, themeVars, presetKeys, loadFailed>>

\* the overlay window itself is closed: OverlayWindow.closeEvent, then
\* _on_overlay_closed
OverlayClosed ==
    /\ appState = "running"
    /\ overlay # NoOverlay
    /\ ovState[overlay] = "visible"
    /\ CloseInstance(overlay)
    /\ overlay' = NoOverlay
    /\ reloaded' = FALSE
    /\ UNCHANGED <<appState, listenerVars, queue, emitLog, handled, nInst,
                   layoutVars, accessors, confVars>>

\* _load_selected_preset: the preset's own key list goes to _load_layout
LoadSelectedPreset ==
    /\ DoLoadLayout(presetKeys, PresetStore)
    /\ UNCHANGED <<settings, loadFailed>>

\* _load_selected_config: load_config returns the file's data, and the
\* layout is loaded and its name becomes last_config; or it returns None,
\* the file being absent or unreadable, and the handler ends
LoadSelectedConfig(found) ==
    IF found
    THEN /\ DoLoadLayout(ConfigKeys, CallerList(ConfigKeys))
         /\ settings' = [settings EXCEPT !.last_config = CfgName]
         /\ loadFailed' = FALSE
    ELSE /\ loadFailed' = TRUE
         /\ UNCHANGED <<curKeys, curRef, edKeys, edRef, edSel, edDrag,
                        dragOffset, snap, snapBox, nOps, edLast, ovKeys, ovRef,
                        ovPressed, reloaded, windowVars, settings>>

\* _load_layout(keys, name), reached from a preset or a saved config
LoadLayout ==
    /\ appState = "running"
    /\ \/ LoadSelectedPreset
       \/ LoadSelectedConfig(TRUE)
    /\ UNCHANGED <<appState, listenerVars, queue, emitLog, handled, overlay,
                   nInst, ovState, accessors, retKeys, retRef, themeVars,
                   presetKeys>>

\* _load_selected_config when load_config returns None
LoadConfigFails ==
    /\ appState = "running"
    /\ LoadSelectedConfig(FALSE)
    /\ UNCHANGED <<appState, listenerVars, queue, emitLog, handled, overlay,
                   nInst, ovState, accessors, retKeys, retRef, themeVars,
                   presetKeys>>

\* config.preset_to_config: "copy.deepcopy(preset["keys"])"
PresetToConfig ==
    DeepCopy(CallerSite, PresetStore,
             ShownObjs \cup Range(edRef.objs) \cup Range(retRef.objs)
                 \cup Range(PresetStore.objs) \cup {edSel, edDrag},
             ShownLists \cup {edRef.lst, retRef.lst, PresetStore.lst})

\* _save_preset_as_config: the copy is written to a file, or the write
\* fails and a warning is shown; nothing the window holds is assigned
SavePresetAsConfig ==
    /\ appState = "running"
    /\ UNCHANGED vars

\* the Qt event loop takes the oldest queued emission and runs _on_key_event
OnKeyEvent ==
    /\ appState \in {"running", "closing"}
    /\ queue # <<>>
    /\ queue' = Tail(queue)
    /\ RunKeyEvent(Head(queue), UI)
    /\ UNCHANGED <<appState, listenerVars, emitLog, overlay, nInst, ovState,
                   ovKeys, ovRef, windowVars, layoutVars, confVars>>

\* a closeEvent that leaves the listener running
CloseEventStopSkipped(kbOut, msOut) == UNCHANGED listenerVars

\* closeEvent: "if self._listener: self._listener.stop()"
CloseEventStop(kbOut, msOut) == ApplyStop(kbOut, msOut)

\* MainWindow.closeEvent: the main window is closed; the position of an
\* overlay that is up goes into the settings, which are saved
CloseEvent ==
    /\ appState = "running"
    /\ \E kbOut \in StopOutcomes, msOut \in StopOutcomes :
           CloseEventStop(kbOut, msOut)
    /\ settings' = (IF overlay # NoOverlay THEN HidePosition ELSE settings)
    /\ appState' = "closing"
    /\ UNCHANGED <<queue, emitLog, handled, overlayVars, layoutVars, accessors,
                   themeVars, presetKeys, loadFailed>>

\* app.exec() returns and the process ends: what is still queued on the
\* bridge is discarded with it
Exit ==
    /\ appState = "closing"
    /\ appState' = "exited"
    /\ queue' = <<>>
    /\ UNCHANGED <<listenerVars, emitLog, handled, overlayVars, layoutVars,
                   accessors, confVars>>

Next ==
    \/ MainWindowInit
    \/ Emit
    \/ OnKeyEvent
    \/ ToggleOverlay
    \/ OverlayClosed
    \/ LoadLayout
    \/ CloseEvent
    \/ Exit

Spec == Init /\ [][Next]_vars

\* the Qt event loop keeps taking queued emissions while it runs
LiveSpec == Spec /\ WF_vars(OnKeyEvent)

-----------------------------------------------------------------------------
(* editor.py: geometry *)

\* a / b rounded to the nearest integer, a tie to the even one: Python's
\* round() on a float (b > 0)
Round(a, b) ==
    LET q == a \div b
        r == a % b
    IN IF 2 * r < b THEN q
       ELSE IF 2 * r > b THEN q + 1
       ELSE IF q % 2 = 0 THEN q ELSE q + 1

\* _key_rect(k) under theme t, _unit(), _gap() and _kh() being t's
\* key_unit_px, key_gap_px and key_height_px: the pixel rectangle of key k.
\* k.x cells are k.x * (u + g) pixels; in fixed point the product is over
\* Scale.
CanvasRect(k, t) ==
    [x |-> PAD + (k.x * (t.key_unit_px + t.key_gap_px)) \div Scale,
     y |-> PAD + (k.y * (t.key_height_px + t.key_gap_px)) \div Scale,
     w |-> k.w * t.key_unit_px + (k.w - 1) * t.key_gap_px,
     h |-> k.h * t.key_height_px + (k.h - 1) * t.key_gap_px]

\* _key_rect(k): the canvas holds MainWindow._theme itself
KeyRect(k) == CanvasRect(k, theme)

\* QRectF.contains(QPointF): inside or on the edge
Contains(rect, pos) ==
    /\ rect.x <= pos[1] /\ pos[1] <= rect.x + rect.w
    /\ rect.y <= pos[2] /\ pos[2] <= rect.y + rect.h

\* a hit test that takes the first key in list order
KeyAtFirst(keys, pos) ==
    LET hits == { i \in DOMAIN keys : Contains(KeyRect(keys[i]), pos) }
    IN IF hits = {} THEN 0
       ELSE CHOOSE i \in hits : \A j \in hits : i <= j

\* _key_at(pos): the first key in reversed list order whose rectangle
\* contains pos, as an index into the list; 0 for None
KeyAt(keys, pos) ==
    LET hits == { i \in DOMAIN keys : Contains(KeyRect(keys[i]), pos) }
    IN IF hits = {} THEN 0
       ELSE CHOOSE i \in hits : \A j \in hits : j <= i

\* _snap_pos(x, y): x and y arrive in cells (fixed point), and are divided
\* by the cell size in pixels, gx = u + g and gy = kh + g, before rounding;
\* the rounded numbers are whole cells
SnapPos(x, y, snapOn) ==
    IF ~snapOn THEN <<x, y>>
    ELSE <<Round(x, Scale * (UNIT + GAP)) * Scale,
           Round(y, Scale * (KH + GAP)) * Scale>>

\* mouseMoveEvent: raw_x and raw_y, the pointer less the grab offset and the
\* padding, in cells: pixels / (u + g) is pixels * Scale / (u + g) in fixed
\* point
RawPos(pos, off) ==
    <<((pos[1] - off[1] - PAD) * Scale) \div (UNIT + GAP),
      ((pos[2] - off[2] - PAD) * Scale) \div (KH + GAP)>>

\* a drag position that is not clamped
DragPosUnclamped(pos, off, snapOn) ==
    LET raw == RawPos(pos, off) IN SnapPos(raw[1], raw[2], snapOn)

\* mouseMoveEvent: the x and y it assigns to the dragged key
DragPos(pos, off, snapOn) ==
    LET raw == RawPos(pos, off)
        s == SnapPos(raw[1], raw[2], snapOn)
    IN <<Max(0, IF snapOn THEN s[1] ELSE Max(0, raw[1])),
         Max(0, IF snapOn THEN s[2] ELSE Max(0, raw[2]))>>

-----------------------------------------------------------------------------
(* editor.py: the editor's operations, on the Qt thread *)

\* uuid.uuid4().hex[:6] behind "key_": two of the 16^6 ids it can return
GenIds == {"key_0a1b2c", "key_ffffff"}

\* the dict add_key builds: x 0.0, y 9.0, w 1.0, h 1.0
NewKey(newId) ==
    [id |-> newId, label |-> "New", x |-> 0, y |-> 9 * Scale, w |-> 1,
     h |-> 1, color |-> NoAttr, text_color |-> NoAttr]

\* texts the user can leave in the panel's ID field: blanks only, and the
\* id of another key with a blank after it
IdTexts == {"  ", "shift "}

\* a strip that keeps the text as typed
StripNothing(t) == t

\* str.strip() on those texts
Strip(t) ==
    CASE t = "  " -> ""
      [] t = "shift " -> "shift"
      [] OTHER -> t

\* pointer positions, in pixels: on the first key of either layout; in the
\* second cell of the first row, where the preset has no key and the config
\* has two; left of and above the canvas origin; and far to the right, in
\* the 25th cell of the first row
Pointers == {<<12, 12>>, <<70, 12>>, <<-30, -8>>, <<1210, 12>>}
Buttons == {"left", "right"}

EdObjs == Range(edRef.objs) \cup {edSel, edDrag}

\* what an editor operation leaves alone outside the key lists
EditorFrame ==
    UNCHANGED <<appState, listenerVars, queue, emitLog, handled, accessors,
                overlay, nInst, ovState, ovPressed, reloaded, windowVars,
                themeVars, settings, loadFailed>>

EditorOp(op, arg) ==
    /\ appState = "running"
    /\ nOps < MaxOps
    /\ nOps' = nOps + 1
    /\ edLast' = [op |-> op, arg |-> arg, before |-> edKeys, sel |-> edSel,
                  drag |-> edDrag]

\* "d[f] = v" for f |-> v of upd on dict object r: every list that holds r
\* shows the new value
WriteObj(r, upd) ==
    /\ edKeys' = WriteIn(edKeys, edRef.objs, r, upd)
    /\ curKeys' = WriteIn(curKeys, curRef.objs, r, upd)
    /\ ovKeys' = [i \in Insts |-> WriteIn(ovKeys[i], ovRef[i].objs, r, upd)]
    /\ retKeys' = WriteIn(retKeys, retRef.objs, r, upd)
    /\ presetKeys' = WriteIn(presetKeys, PresetStore.objs, r, upd)
    /\ UNCHANGED <<edRef, curRef, ovRef, retRef>>

\* "lst.append(d)" seen through a variable that holds list object st.lst
AppendIn(keys, st, lst, d) == IF st.lst = lst THEN Append(keys, d) ELSE keys
AppendRef(st, lst, r) ==
    IF st.lst = lst THEN Store(lst, Append(st.objs, r)) ELSE st

\* add_key
AddKey ==
    \E newId \in GenIds :
        LET r == LowestFree(EdSite, OtherObjs \cup EdObjs)
            k == NewKey(newId)
            l == edRef.lst
        IN /\ EditorOp("add", newId)
           /\ Len(edKeys) < MaxKeys
           /\ edKeys' = Append(edKeys, k)
           /\ edRef' = Store(l, Append(edRef.objs, r))
           /\ curKeys' = AppendIn(curKeys, curRef, l, k)
           /\ curRef' = AppendRef(curRef, l, r)
           /\ ovKeys' = [i \in Insts |-> AppendIn(ovKeys[i], ovRef[i], l, k)]
           /\ ovRef' = [i \in Insts |-> AppendRef(ovRef[i], l, r)]
           /\ retKeys' = AppendIn(retKeys, retRef, l, k)
           /\ retRef' = AppendRef(retRef, l, r)
           /\ presetKeys' = AppendIn(presetKeys, PresetStore, l, k)
           /\ edSel' = r
           /\ UNCHANGED <<edDrag, dragOffset, snap, snapBox>>
           /\ EditorFrame

\* the indexes delete_selected keeps: "k["id"] != kid"
Kept(keys, kid) == { i \in DOMAIN keys : keys[i].id # kid }

\* seq cut to the indexes in keep, in order
RECURSIVE Pick(_, _, _)
Pick(seq, keep, i) ==
    IF i > Len(seq) THEN <<>>
    ELSE (IF i \in keep THEN <<seq[i]>> ELSE <<>>) \o Pick(seq, keep, i + 1)

\* delete_selected
\* a delete_selected that leaves _selected as it was
DeleteSelectedKeepsSel ==
    /\ EditorOp("delete", <<>>)
    /\ IF edSel = NoSel
       THEN UNCHANGED <<edKeys, edRef, edSel>>
       ELSE LET keep == Kept(edKeys, EdValue(edSel).id) IN
            /\ edKeys' = Pick(edKeys, keep, 1)
            /\ edRef' = Store(LowestFree(EdSite, OtherLists),
                              Pick(edRef.objs, keep, 1))
            /\ edSel' = edSel
    /\ UNCHANGED <<curKeys, curRef, ovKeys, ovRef, retKeys, retRef, edDrag,
                   dragOffset, snap, snapBox, presetKeys>>
    /\ EditorFrame

DeleteSelected ==
    /\ EditorOp("delete", <<>>)
    /\ IF edSel = NoSel
       THEN UNCHANGED <<edKeys, edRef, edSel>>
       ELSE LET keep == Kept(edKeys, EdValue(edSel).id) IN
            /\ edKeys' = Pick(edKeys, keep, 1)
            /\ edRef' = Store(LowestFree(EdSite, OtherLists),
                              Pick(edRef.objs, keep, 1))
            /\ edSel' = NoSel
    /\ UNCHANGED <<curKeys, curRef, ovKeys, ovRef, retKeys, retRef, edDrag,
                   dragOffset, snap, snapBox,
                    presetKeys>>
    /\ EditorFrame

\* update_selected(updates)
UpdateSelected(op, upd) ==
    /\ EditorOp(op, upd)
    /\ IF edSel = NoSel
       THEN UNCHANGED <<edKeys, edRef, curKeys, curRef, ovKeys, ovRef, retKeys,
                        retRef,
                    presetKeys>>
       ELSE WriteObj(edSel, upd)
    /\ UNCHANGED <<edSel, edDrag, dragOffset, snap, snapBox>>
    /\ EditorFrame

\* KeyPropertiesPanel._emit: the six fields as the widgets hold them, k
\* being the key the panel shows and widget the one the user changed
PanelEmit(k, widget, val) ==
    Patch([f \in {"id", "label", "x", "y", "w", "h"} |->
              IF f = "id" THEN Strip(k.id) ELSE k[f]],
          IF widget = "id" THEN [id |-> Strip(val)]
          ELSE IF widget = "label" THEN [label |-> val]
          ELSE [w |-> val])

\* the changes a user makes in the panel's widgets
PanelEdits ==
    { <<"id", t>> : t \in IdTexts }
    \cup { <<"label", "Q">>, <<"w", 2>> }

\* _pick_color, _pick_text_color and _clear_color: one field each
ColorUpdates == { [color |-> "#ff0000"] }

\* what the panel's widgets hold while no key is selected
PanelIdle == [id |-> "", label |-> "", x |-> 0, y |-> 0, w |-> 1, h |-> 1]

\* the panel's "changed" signal, connected to update_selected
PanelChanged ==
    \/ \E e \in PanelEdits :
           UpdateSelected("update",
               PanelEmit(IF edSel # NoSel THEN EdValue(edSel) ELSE PanelIdle,
                         e[1], e[2]))
    \/ \E upd \in ColorUpdates : UpdateSelected("update", upd)

\* mousePressEvent(pos, button)
MousePress ==
    \E pos \in Pointers, button \in Buttons :
        LET hit == KeyAt(edKeys, pos)
            rect == KeyRect(edKeys[hit])
        IN /\ EditorOp("press", <<pos, button>>)
           /\ IF button = "left"
              THEN IF hit # 0
                   THEN /\ edSel' = edRef.objs[hit]
                        /\ edDrag' = edRef.objs[hit]
                        /\ dragOffset' = <<pos[1] - rect.x, pos[2] - rect.y>>
                   ELSE /\ edSel' = NoSel
                        /\ UNCHANGED <<edDrag, dragOffset>>
              ELSE UNCHANGED <<edSel, edDrag, dragOffset>>
           /\ UNCHANGED <<edKeys, edRef, curKeys, curRef, ovKeys, ovRef,
                          retKeys, retRef, snap, snapBox,
                    presetKeys>>
           /\ EditorFrame

\* mouseMoveEvent(pos) with the left button held or not
MouseMove ==
    \E pos \in Pointers, leftHeld \in BOOLEAN :
        /\ EditorOp("move", <<pos, leftHeld, snap>>)
        /\ IF edDrag # NoSel /\ leftHeld
           THEN LET xy == DragPos(pos, dragOffset, snap) IN
                WriteObj(edDrag, [x |-> xy[1], y |-> xy[2]])
           ELSE UNCHANGED <<edKeys, edRef, curKeys, curRef, ovKeys, ovRef,
                            retKeys, retRef,
                    presetKeys>>
        /\ UNCHANGED <<edSel, edDrag, dragOffset, snap, snapBox>>
        /\ EditorFrame

\* mouseReleaseEvent
MouseRelease ==
    /\ appState = "running"
    /\ edDrag # NoSel
    /\ edDrag' = NoSel
    /\ UNCHANGED <<edKeys, edRef, edSel, curKeys, curRef, ovKeys, ovRef,
                   retKeys, retRef, dragOffset, snap, snapBox, nOps, edLast,
                    presetKeys>>
    /\ EditorFrame

\* the "Snap to grid" check box is clicked: toggled(checked) runs
\* set_snap(checked)
SetSnap ==
    /\ appState = "running"
    /\ snapBox' = ~snapBox
    /\ snap' = snapBox'
    /\ UNCHANGED <<edKeys, edRef, edSel, curKeys, curRef, ovKeys, ovRef,
                   retKeys, retRef, edDrag, dragOffset, nOps, edLast,
                    presetKeys>>
    /\ EditorFrame

\* an editor save that loads the list whether or not the file was written
EditorSaveLoadsAlways(saved) == TRUE

\* _on_editor_save: "if save_config(name, cfg):"
EditorSaveLoads(saved) == saved

\* EditorTab._on_save, then MainWindow._on_editor_save with the list
\* get_keys() returned; saved is what save_config returns, True when the
\* file was written (False also stands for a name dialog that is cancelled)
EditorSaveWith(saved) ==
    /\ appState = "running"
    /\ GetKeys
    /\ IF EditorSaveLoads(saved)
       THEN /\ DoLoadLayout(edKeys, GetKeysResult)
            /\ settings' = [settings EXCEPT !.last_config = SaveName]
       ELSE /\ edLast' = [op |-> "get", prev |-> edLast.op]
            /\ UNCHANGED <<curKeys, curRef, edKeys, edRef, edSel, edDrag,
                           dragOffset, snap, snapBox, nOps, ovKeys, ovRef, ovPressed,
                           reloaded, windowVars, settings>>
    /\ UNCHANGED <<appState, listenerVars, queue, emitLog, handled, accessors,
                   overlay, nInst, ovState, themeVars, presetKeys, loadFailed>>

\* the save is accepted or not, save_config writes the file or fails, and
\* only then is the list loaded
EditorSave == \E saved \in BOOLEAN : EditorSaveWith(saved)

EditorNext ==
    \/ ToggleOverlay
    \/ LoadLayout
    \/ EditorSave
    \/ AddKey
    \/ DeleteSelected
    \/ PanelChanged
    \/ MousePress
    \/ MouseMove
    \/ MouseRelease
    \/ SetSnap
    \/ SavePresetAsConfig

EditorSpec == EditorInit /\ [][EditorNext]_vars

-----------------------------------------------------------------------------
(* main.py: theme edits, on the Qt thread *)

\* values the Style tab's spin boxes and the opacity slider are set to
UnitValues == {44, 68}
AlphaValues == {93, 50}

\* "self._theme[key] = val": the write goes to the dict MainWindow._theme
\* refers to, which is DEFAULT_THEME itself while themeObj is DefaultObj
WriteTheme(upd) ==
    /\ theme' = Patch(theme, upd)
    /\ defTheme' = (IF themeObj = DefaultObj THEN Patch(defTheme, upd)
                    ELSE defTheme)
    /\ UNCHANGED themeObj

\* set_theme: "self._compute_geometry()" under the new theme
SetThemeGeometry(i, t) == ComputeGeometry(ovKeys[i], t)

\* a set_theme that resizes the window and keeps the theme it had
OverlaySetThemeSizeOnly(i, t) ==
    /\ ovSize' = [ovSize EXCEPT ![i] = SetThemeGeometry(i, t)]
    /\ UNCHANGED <<ovTheme, ovPos>>

\* OverlayWindow.set_theme(theme) on instance i: a copy of the theme, the
\* size computed again
OverlaySetTheme(i, t) ==
    /\ ovTheme' = [ovTheme EXCEPT ![i] = t]
    /\ ovSize' = [ovSize EXCEPT ![i] = SetThemeGeometry(i, t)]
    /\ UNCHANGED ovPos

\* EditorCanvas.set_theme: "self._snap = theme.get("snap_to_grid", True)"
CanvasSetThemeSnap(t) == t.snap_to_grid

\* _apply_theme: the settings and the editor are handed MainWindow._theme,
\* EditorTab.set_theme passing it on to the canvas, and an overlay that is
\* visible gets set_theme
ApplyTheme ==
    /\ snap' = CanvasSetThemeSnap(theme')
    /\ IF overlay # NoOverlay /\ ovState[overlay] = "visible"
       THEN OverlaySetTheme(overlay, theme') /\ reloaded' = FALSE
       ELSE UNCHANGED <<windowVars, reloaded>>

\* what a theme edit leaves alone
ThemeFrame ==
    UNCHANGED <<appState, listenerVars, queue, emitLog, handled, accessors,
                overlay, nInst, ovState, ovKeys, ovRef, ovPressed, curKeys,
                curRef, edKeys, edRef, edSel, edDrag, dragOffset, snapBox,
                retKeys, retRef, nOps, edLast, settings, presetKeys,
                loadFailed>>

\* _set_theme(key, val), here from the "Key Height" spin box
SetTheme ==
    /\ appState = "running"
    /\ \E val \in UnitValues :
           /\ val # theme.key_height_px
           /\ WriteTheme([key_height_px |-> val])
    /\ ApplyTheme
    /\ ThemeFrame

\* _on_alpha_changed(val)
OnAlphaChanged ==
    /\ appState = "running"
    /\ \E val \in AlphaValues :
           /\ val # theme.overlay_alpha
           /\ WriteTheme([overlay_alpha |-> val])
    /\ ApplyTheme
    /\ ThemeFrame

\* _on_scale_changed(val)
OnScaleChanged ==
    /\ appState = "running"
    /\ \E val \in UnitValues :
           /\ val # theme.key_unit_px
           /\ WriteTheme([key_unit_px |-> val])
    /\ ApplyTheme
    /\ ThemeFrame

\* _reset_theme, the question answered Yes:
\* "self._theme = dict(DEFAULT_THEME)", a new dict
ResetTheme ==
    /\ appState = "running"
    /\ theme' = defTheme
    /\ themeObj' = OwnObj
    /\ UNCHANGED defTheme
    /\ ApplyTheme
    /\ ThemeFrame

\* the "Snap by default" check box of the settings tab:
\* _set_theme("snap_to_grid", v)
SetSnapDefault ==
    /\ appState = "running"
    /\ WriteTheme([snap_to_grid |-> ~theme.snap_to_grid])
    /\ ApplyTheme
    /\ ThemeFrame

ThemeNext ==
    \/ ToggleOverlay
    \/ OverlayClosed
    \/ LoadLayout
    \/ SetTheme
    \/ OnAlphaChanged
    \/ OnScaleChanged
    \/ ResetTheme

ThemeSpec == PanelInit /\ [][ThemeNext]_vars

-----------------------------------------------------------------------------
(* The overlay window moved and closed, configs loaded and saved *)

\* places on the screen the overlay is dragged to
WindowSpots == {<<100, 100>>, <<300, 200>>}

\* OverlayWindow.mouseMoveEvent with the left button held: "self.move(...)"
MoveOverlay ==
    /\ appState = "running"
    /\ overlay # NoOverlay
    /\ ovState[overlay] = "visible"
    /\ \E pos \in WindowSpots :
           /\ pos # ovPos[overlay]
           /\ ovPos' = [ovPos EXCEPT ![overlay] = pos]
    /\ UNCHANGED <<appState, listenerVars, queue, emitLog, handled, accessors,
                   overlay, nInst, ovState, ovKeys, ovRef, ovPressed, reloaded,
                   ovTheme, ovSize, layoutVars, confVars>>

OverlayNext ==
    \/ ToggleOverlay
    \/ OverlayClosed
    \/ MoveOverlay
    \/ LoadLayout
    \/ CloseEvent

OverlaySpec == PanelInit /\ [][OverlayNext]_vars

ConfigNext ==
    \/ ToggleOverlay
    \/ LoadLayout
    \/ LoadConfigFails
    \/ SavePresetAsConfig
    \/ EditorSave
    \/ AddKey

ConfigSpec == PanelInit /\ [][ConfigNext]_vars

\* the layout and the theme changed in every way while the overlay is shown
\* and hidden
DisplayNext ==
    \/ ToggleOverlay
    \/ LoadLayout
    \/ EditorSave
    \/ AddKey
    \/ SetTheme
    \/ OnAlphaChanged
    \/ OnScaleChanged
    \/ ResetTheme

\* from the state in which the settings file was read
DisplaySpec == EditorInit /\ [][DisplayNext]_vars

\* the editor's check box and the theme changed in any order
SnapNext ==
    \/ SetSnap
    \/ SetSnapDefault
    \/ SetTheme
    \/ OnAlphaChanged
    \/ OnScaleChanged
    \/ ResetTheme
    \/ ToggleOverlay

SnapSpec == PanelInit /\ [][SnapNext]_vars

-----------------------------------------------------------------------------
(* listener.py under a keyboard: physical keys and the shift modifier. The *)
(* platform reports a key event with the character the key gives under the *)
(* modifiers held at that moment, on release as on press.                  *)

\* a KeyCode with the character c
KeyCodeOf(c) ==
    [cls |-> "KeyCode", char |-> c, name |-> NoAttr, str |-> "'" \o c \o "'"]

\* physical keys of a US keyboard: what each is reported as with shift up and
\* with shift down; the last one is the shift key itself
PhysShift ==
    LET k == [cls |-> "Key", char |-> NoAttr, name |-> "shift",
              str |-> "Key.shift"]
    IN [plain |-> k, shifted |-> k]
PhysKeys ==
    { [plain |-> KeyCodeOf("a"), shifted |-> KeyCodeA],
      [plain |-> KeyCodeOf("1"), shifted |-> KeyCodeOf("!")],
      PhysShift }

\* the events the keyboard thread has passed on for physical key k
EventsOf(k) ==
    SelectSeq(emitLog["kb"],
              LAMBDA e : e.id \in {Normalize(k.plain), Normalize(k.shifted)})

\* physical key k is down: its last event was a press
Held(k) == EventsOf(k) # <<>> /\ EventsOf(k)[Len(EventsOf(k))].pressed

\* the key object pynput hands to on_press / on_release for physical key k
RawKey(k) == IF Held(PhysShift) THEN k.shifted ELSE k.plain

\* a physical key goes down or comes up: _on_kb_press / _on_kb_release
KeyMoves ==
    \E k \in PhysKeys, isPressed \in BOOLEAN :
        /\ isPressed # Held(k)
        /\ EmitKb(RawKey(k), isPressed)

\* the keyboard in use while the overlay is shown and hidden
KeyboardNext ==
    \/ KeyMoves
    \/ OnKeyEvent
    \/ ToggleOverlay

KeyboardSpec == PanelInit /\ [][KeyboardNext]_vars

-----------------------------------------------------------------------------
(* Helpers of the properties *)

\* the events of thread c in seq, in order
From(seq, c) ==
    LET IsC(e) == e.src = c IN SelectSeq(seq, IsC)

\* what the capture thread passed: (src, id, pressed)
Payloads(seq) ==
    [k \in 1..Len(seq) |->
        [src |-> seq[k].src, id |-> seq[k].id, pressed |-> seq[k].pressed]]

IsPrefix(a, b) == Len(a) <= Len(b) /\ SubSeq(b, 1, Len(a)) = a

\* the update_key calls made on overlay instance i, in order
CallsOn(i) ==
    LET OnI(e) == e.target = i IN SelectSeq(handled, OnI)

\* the ids whose most recent call in calls had pressed = TRUE
PressedAfter(calls) ==
    { calls[k].id : k \in { j \in 1..Len(calls) :
          /\ calls[j].pressed
          /\ \A m \in (j+1)..Len(calls) : calls[m].id # calls[j].id } }

\* the keys of instance i that paintEvent draws as pressed
ShownPressed(i) ==
    { k \in 1..Len(ovKeys[i]) : ovKeys[i][k].id \in ovPressed[i] }

-----------------------------------------------------------------------------
(* Properties *)

\* C1: every event a capture thread passes to the callback reaches
\* _on_key_event at most once and in the order of its thread, and while the
\* process runs the events not yet handled are exactly those waiting on the
\* bridge: none is dropped, merged or reordered.
C1_ExactlyOnceInOrder ==
    \A c \in Threads :
        /\ IsPrefix(Payloads(From(handled, c)), emitLog[c])
        /\ appState # "exited" =>
               Payloads(From(handled \o queue, c)) = emitLog[c]

\* C1 witness: a press of "a" and its release are both waiting on the bridge
\* and the handler has not run once.
C1_Witness ==
    /\ handled = <<>>
    /\ Len(queue) >= 2
    /\ queue[1] = [src |-> "kb", id |-> "a", pressed |-> TRUE]
    /\ queue[2] = [src |-> "kb", id |-> "a", pressed |-> FALSE]

\* C2: only the Qt thread reads or writes the overlay's and the editor's
\* state; a capture thread's callback only publishes on the bridge.
C2_UiThreadOnly == accessors \subseteq {UI}

\* C2 witness: both capture threads have emitted and update_key has run on a
\* visible overlay.
C2_Witness ==
    /\ emitLog["kb"] # <<>>
    /\ emitLog["ms"] # <<>>
    /\ \E k \in 1..Len(handled) : handled[k].target # NoOverlay

\* C3: update_key requests a repaint iff the call changed the pressed-set; of
\* two calls update_key(id, true) in a row on one overlay the second requests
\* none, and a release of an id that is not in the set requests none.
C3_RepaintIffChanged ==
    \A i \in Insts :
        LET calls == CallsOn(i) IN
        \A k \in 1..Len(calls) :
            /\ calls[k].repaint <=> (calls[k].before # calls[k].after)
            /\ (~calls[k].pressed /\ calls[k].id \notin calls[k].before)
                   => ~calls[k].repaint
            /\ (k > 1 /\ calls[k].pressed /\ calls[k-1].pressed
                      /\ calls[k].id = calls[k-1].id)
                   => /\ ~calls[k].repaint
                      /\ calls[k-1].repaint <=> (calls[k].id \notin calls[k-1].before)

\* C3 witness: press "a" twice in a row on overlay 1 (one repaint), then a
\* release of an id that is not in the set.
C3_Witness ==
    LET calls == CallsOn(1) IN
    /\ Len(calls) = 3
    /\ calls[1].id = "a" /\ calls[1].pressed /\ calls[1].repaint
    /\ calls[2].id = "a" /\ calls[2].pressed /\ ~calls[2].repaint
    /\ calls[3].id = "mouse_left" /\ ~calls[3].pressed /\ ~calls[3].repaint

\* C4: the pressed-set of an overlay is the set of ids whose most recent
\* update_key call on it had pressed = true.
C4_PressedIsMostRecent ==
    \A i \in Insts :
        /\ ovState[i] = "visible" => ovPressed[i] = PressedAfter(CallsOn(i))
        /\ \A k \in 1..Len(CallsOn(i)) :
               CallsOn(i)[k].after = PressedAfter(SubSeq(CallsOn(i), 1, k))

\* C4 witness: a release of an id not in the set, then press "a", release
\* "a": {} -> {} -> {"a"} -> {}.
C4_Witness ==
    LET calls == CallsOn(1) IN
    /\ ovState[1] = "visible"
    /\ Len(calls) = 3
    /\ ~calls[1].pressed /\ calls[1].before = {} /\ calls[1].after = {}
    /\ calls[2].id = "a" /\ calls[2].pressed /\ calls[2].after = {"a"}
    /\ calls[3].id = "a" /\ ~calls[3].pressed /\ calls[3].after = {}
    /\ ovPressed[1] = {}

\* C5 (as claimed): right after load_keys on the overlay its pressed-set is
\* empty and no key is drawn as pressed.
C5_ReloadClearsPressed ==
    reloaded => (ovPressed[overlay] = {} /\ ShownPressed(overlay) = {})

\* C6: however often start() is called, at most one keyboard listener and at
\* most one mouse listener are ever constructed, and a start() issued while a
\* listener runs is ignored: it tries nothing and changes nothing.
C6_StartIdempotent ==
    /\ \A c \in Threads : nMade[c] <= 1
    /\ (lastCall.op = "start"
          /\ (lastCall.kbBefore = "running" \/ lastCall.msBefore = "running"))
       => /\ lastCall.ignored
          /\ ~lastCall.kbTried /\ ~lastCall.msTried
          /\ kb = lastCall.kbBefore /\ ms = lastCall.msBefore

\* C6 witness: start() was called with both listeners running and ignored.
C6_Witness ==
    /\ lastCall.op = "start" /\ lastCall.ignored
    /\ lastCall.kbBefore = "running" /\ lastCall.msBefore = "running"
    /\ kb = "running" /\ ms = "running"
    /\ nMade = [c \in Threads |-> 1]

\* C7: a start() that is not ignored never raises and tries both
\* attachments, whichever of them fails; each input class runs iff its own
\* attachment succeeded, and a class that failed has delivered no event.
C7_AttachFailureNonFatal ==
    (lastCall.op = "start" /\ ~lastCall.ignored)
    => /\ ~lastCall.raised
       /\ lastCall.kbTried /\ lastCall.msTried
       /\ (kb = "running") <=> ~lastCall.kbExc
       /\ (ms = "running") <=> ~lastCall.msExc
       /\ \A c \in Threads : ListenerOf(c) # "running" => emitLog[c] = <<>>

\* C7 witness: the keyboard attachment failed, the mouse listener runs and
\* has delivered an event.
C7_Witness ==
    /\ lastCall.op = "start" /\ ~lastCall.ignored
    /\ lastCall.kbExc /\ kb # "running"
    /\ ms = "running" /\ emitLog["ms"] # <<>>

\* C8: stop() never raises, whatever state the listener is in, and tries to
\* stop every listener that exists, also after the stop of the other failed.
C8_StopNeverRaises ==
    lastCall.op = "stop"
    => /\ ~lastCall.raised
       /\ lastCall.kbTried <=> (lastCall.kbBefore # "none")
       /\ lastCall.msTried <=> (lastCall.msBefore # "none")

\* C8 witness: stopping the running keyboard listener raised and the running
\* mouse listener was stopped all the same.
C8_Witness ==
    /\ lastCall.op = "stop"
    /\ lastCall.kbBefore = "running" /\ lastCall.kbExc
    /\ lastCall.msBefore = "running" /\ lastCall.msTried /\ ms = "idle"

\* C9: update_key is called on an overlay instance only while that instance
\* is MainWindow's current overlay and visible (never on a closed one), and
\* when the process has ended stop() was the listener's last call.
C9_NoEventToClosedOverlay ==
    /\ [][ \A i \in Insts :
             Len(CallsOn(i))' > Len(CallsOn(i))
                 => (overlay = i /\ ovState[i] = "visible") ]_vars
    /\ [](appState = "exited" => lastCall.op = "stop")

\* C9 witness: an event was applied to overlay 1, the overlay was closed, a
\* later event found no overlay, and the application has shut down.
C9_Witness ==
    /\ appState = "exited"
    /\ ovState[1] = "closed"
    /\ \E k \in 1..(Len(handled) - 1) :
           handled[k].target = 1 /\ handled[k+1].target = NoOverlay

\* a capture thread with a running listener can publish its next event
CanPublish(c) ==
    IF c = "kb" THEN ENABLED (\E p \in BOOLEAN : EmitKb(KeyCodeA, p))
    ELSE ENABLED (\E b \in RawButtons, p \in BOOLEAN : EmitMs(b, p))

\* C10: while the Qt event loop runs, every published event is eventually
\* handled (or the process has ended), and a capture thread whose listener
\* runs can always publish, however many events are still undelivered.
C10_EventuallyHandled ==
    /\ \A c \in Threads : \A n \in 1..MaxEvents :
           (Len(emitLog[c]) >= n)
               ~> (Len(From(handled, c)) >= n \/ appState = "exited")
    /\ [](\A c \in Threads : CanEmit(c) => CanPublish(c))

\* C10 witness: three events wait undelivered on the bridge, all published
\* by one thread before the handler ran.
C10_Witness ==
    /\ handled = <<>>
    /\ Len(queue) >= 3
    /\ \A k \in 1..3 : queue[k].src = "kb"

-----------------------------------------------------------------------------
(* The editor's and the overlay's key lists *)

\* the step is an editor operation that writes: add_key, delete_selected,
\* update_selected or a mouse event
EditorStep == nOps' = nOps + 1

\* the step loads a layout: _load_layout ran, from a preset, a config or a
\* successful editor save
LoadStep == nOps' = nOps /\ edLast' = LoadOp /\ edKeys' = curKeys'

\* C11: The editor's working list and the list an overlay displays never
\* share a list object or a dict object; a step of an editor operation
\* (add, delete, drag, property edit, press) changes no key of any overlay;
\* and the keys of an overlay that stays up change only in a step that loads
\* a layout, after which it shows the layout loaded.
C11_SnapshotIsolated ==
    /\ [](\A i \in Insts : ~Shares(edRef, ovRef[i]))
    /\ [][EditorStep => ovKeys' = ovKeys]_vars
    /\ [][\A i \in Insts :
             (ovState[i] = "visible" /\ ovState'[i] = "visible"
              /\ ovKeys'[i] # ovKeys[i])
             => (LoadStep /\ ovKeys'[i] = curKeys')]_vars

\* the editor has changed its working list while an overlay is up, and the
\* overlay still shows the list as it was
C11_Witness ==
    /\ overlay # NoOverlay
    /\ ovState[overlay] = "visible"
    /\ edLast.op \in {"add", "delete", "update", "move"}
    /\ edKeys # edLast.before
    /\ ovKeys[overlay] = edLast.before

\* C12: When get_keys() is called right after load_keys(L), L being the
\* window's current list, the returned list has as many keys as L, equal to
\* L's in content and order. At all times the list passed to load_keys, the
\* working list and the list get_keys() returned are three list objects with
\* no dict object in common, and an editor operation on the working list
\* changes neither of the other two.
C12_LoadGetRoundTrip ==
    /\ []((edLast.op = "get" /\ edLast.prev = "load")
          => (Len(retKeys) = Len(curKeys) /\ retKeys = curKeys))
    /\ [](~Shares(edRef, curRef) /\ ~Shares(retRef, edRef)
          /\ ~Shares(retRef, curRef))
    /\ [][EditorStep => (curKeys' = curKeys /\ retKeys' = retKeys)]_vars

\* get_keys() has returned a list after a load, and the working list has
\* been changed since: the returned list still equals the loaded one
C12_Witness ==
    /\ retKeys # <<>>
    /\ retKeys = curKeys
    /\ edLast.op \in {"add", "delete", "update", "move"}
    /\ edKeys # edLast.before
    /\ edLast.before = retKeys

-----------------------------------------------------------------------------
(* The editor's operations *)

\* seq without its i-th element
Without(seq, i) == [j \in 1..(Len(seq) - 1) |-> IF j < i THEN seq[j] ELSE seq[j + 1]]

\* the ids of the keys of a list
Ids(keys) == { keys[i].id : i \in DOMAIN keys }

\* C13: After add_key() the working list is the list before with one key
\* appended, and the id of that key is the id of no key the list held
\* before; so two add_key() calls give two keys with distinct ids.
C13_AddKeyIdFresh ==
    edLast.op = "add"
    => /\ edKeys = Append(edLast.before, NewKey(edLast.arg))
       /\ edLast.arg \notin Ids(edLast.before)

\* C14: After delete_selected() with a key selected the working list is the
\* list before without exactly one entry, the other keys in their order, and
\* nothing is selected; with no key selected the list is the list before and
\* still nothing is selected.
C14_DeleteRemovesOne ==
    edLast.op = "delete"
    => IF edLast.sel = NoSel
       THEN edKeys = edLast.before /\ edSel = NoSel
       ELSE /\ Len(edKeys) = Len(edLast.before) - 1
            /\ \E i \in DOMAIN edLast.before : edKeys = Without(edLast.before, i)
            /\ edSel = NoSel

\* C15: After update_selected(updates) with a key selected, the selected key
\* has the values of updates in the fields updates names and its old values
\* in all others, every other key is as before, the list holds the same dict
\* objects in the same order and the same key is selected; with no key
\* selected the list is as before and nothing is selected.
C15_UpdateSelectedFrame ==
    edLast.op = "update"
    => IF edLast.sel = NoSel
       THEN edKeys = edLast.before /\ edSel = NoSel
       ELSE /\ edSel = edLast.sel
            /\ Len(edKeys) = Len(edLast.before)
            /\ \A i \in DOMAIN edKeys :
                 IF edRef.objs[i] = edSel
                 THEN /\ \A f \in DOMAIN edLast.arg :
                            edKeys[i][f] = edLast.arg[f]
                      /\ \A f \in DOMAIN edLast.before[i] \ DOMAIN edLast.arg :
                            edKeys[i][f] = edLast.before[i][f]
                      /\ DOMAIN edKeys[i] = DOMAIN edLast.before[i] \cup DOMAIN edLast.arg
                 ELSE edKeys[i] = edLast.before[i]

\* update_selected has changed a field of the selected key in a list of
\* several keys
C15_Witness ==
    /\ edLast.op = "update"
    /\ edLast.sel # NoSel
    /\ Len(edKeys) > 1
    /\ edKeys # edLast.before

\* C16: Every key of the editor's working list has an id that is not empty
\* after trimming.
C16_IdNonEmpty ==
    \A i \in DOMAIN edKeys : Strip(edKeys[i].id) # ""

\* the keys of a list whose pixel rectangle contains pos, as indexes
Under(keys, pos) == { i \in DOMAIN keys : Contains(KeyRect(keys[i]), pos) }

\* C17: In a step of mousePressEvent with the left button, if some key's
\* rectangle contains the point then the last such key in list order is
\* selected and is the drag target afterwards, and if none does nothing is
\* selected afterwards; the key list, values and objects, is unchanged.
C17_PressSelectsTopmost ==
    [][(EditorStep /\ edLast'.op = "press" /\ edLast'.arg[2] = "left")
       => LET hits == Under(edKeys, edLast'.arg[1]) IN
          /\ IF hits # {}
             THEN \E i \in hits :
                      /\ \A j \in hits : j <= i
                      /\ edSel' = edRef.objs[i]
                      /\ edDrag' = edRef.objs[i]
             ELSE edSel' = NoSel
          /\ edKeys' = edKeys
          /\ edRef' = edRef]_vars

\* a left press on a point that two keys cover has selected a key
C17_Witness ==
    /\ edLast.op = "press"
    /\ edLast.arg[2] = "left"
    /\ Cardinality(Under(edLast.before, edLast.arg[1])) = 2
    /\ edKeys = edLast.before
    /\ edSel # NoSel
    /\ edDrag = edSel

\* the dragged key of the last mouse move, as an index into the working
\* list, or 0 if the list does not hold it
Dragged ==
    IF edLast.drag \in Range(edRef.objs)
    THEN CHOOSE i \in DOMAIN edKeys : edRef.objs[i] = edLast.drag
    ELSE 0

\* the last operation was a mouse move that dragged a key of the list
DragMoved ==
    /\ edLast.op = "move"
    /\ edLast.arg[2]
    /\ Dragged # 0

Abs(a) == IF a < 0 THEN -a ELSE a

\* cell n is an integer nearest to the position raw (fixed point)
Nearest(n, raw) == 2 * Abs(raw - n * Scale) <= Scale

\* the whole cells next to the position raw
CellsAt(raw) == { raw \div Scale, raw \div Scale + 1 }

\* C18: After a drag move with snap-to-grid enabled, the dragged key's x is
\* an integer nearest to (pointer_x - grab_offset_x - pad)/(unit + gap),
\* clamped at 0, and its y an integer nearest to
\* (pointer_y - grab_offset_y - pad)/(row_height + gap), clamped at 0.
C18_SnapToNearestCell ==
    (DragMoved /\ edLast.arg[3])
    => LET raw == RawPos(edLast.arg[1], dragOffset) IN
       /\ \E n \in CellsAt(raw[1]) :
              Nearest(n, raw[1]) /\ edKeys[Dragged].x = Max(0, n) * Scale
       /\ \E n \in CellsAt(raw[2]) :
              Nearest(n, raw[2]) /\ edKeys[Dragged].y = Max(0, n) * Scale

\* C19: For the position (x, y) a mouse move computes, with snap enabled or
\* disabled, snap(snap(x, y)) equals snap(x, y).
C19_SnapIdempotent ==
    edLast.op = "move"
    => LET raw == RawPos(edLast.arg[1], dragOffset)
           s == SnapPos(raw[1], raw[2], edLast.arg[3])
       IN SnapPos(s[1], s[2], edLast.arg[3]) = s

\* C20: After a drag move, with snap enabled or disabled, the dragged key
\* has x >= 0 and y >= 0, and every other key of the list is as it was
\* before the move.
C20_DragClampsAtZero ==
    DragMoved
    => /\ edKeys[Dragged].x >= 0
       /\ edKeys[Dragged].y >= 0
       /\ Len(edKeys) = Len(edLast.before)
       /\ \A i \in DOMAIN edKeys : i # Dragged => edKeys[i] = edLast.before[i]

\* a key of a list of several keys was dragged, snap disabled, to a point
\* left of and above the canvas origin, and is at x = 0, y = 0
C20_Witness ==
    /\ DragMoved
    /\ ~edLast.arg[3]
    /\ RawPos(edLast.arg[1], dragOffset)[1] < 0
    /\ RawPos(edLast.arg[1], dragOffset)[2] < 0
    /\ Len(edKeys) > 1
    /\ edKeys[Dragged].x = 0
    /\ edKeys[Dragged].y = 0

-----------------------------------------------------------------------------
(* The overlay's geometry and colours *)

\* the overlay MainWindow holds is up
Visible == overlay # NoOverlay /\ ovState[overlay] = "visible"

\* key k lies on whole cells
OnCells(k) == k.x % Scale = 0 /\ k.y % Scale = 0

\* C21: a key on whole cells x, y is painted at px = pad + x * (unit + gap),
\* py = pad + y * (row height + gap), pw = w * unit + (w - 1) * gap wide and
\* ph = h * row height + (h - 1) * gap high, pad being 10; with unit 44 and
\* gap 4 that is px = 10 + 48 * x, and 44 wide for w = 1; and the editor's
\* canvas gives the key the same rectangle under the same theme.
C21_KeyRectangle ==
    Visible =>
        \A n \in DOMAIN ovKeys[overlay] :
            LET k == ovKeys[overlay][n]
                t == ovTheme[overlay]
                x == k.x \div Scale
                y == k.y \div Scale
                r == PaintRect(k, t)
            IN OnCells(k) =>
                 /\ r.x = 10 + x * (t.key_unit_px + t.key_gap_px)
                 /\ r.y = 10 + y * (t.key_height_px + t.key_gap_px)
                 /\ r.w = k.w * t.key_unit_px + (k.w - 1) * t.key_gap_px
                 /\ r.h = k.h * t.key_height_px + (k.h - 1) * t.key_gap_px
                 /\ (t.key_unit_px = 44 /\ t.key_gap_px = 4) =>
                        (r.x = 10 + 48 * x /\ (k.w = 1 => r.w = 44))
                 /\ r = CanvasRect(k, t)

\* an overlay is up under a theme whose unit is not the default, and it
\* paints a key two cells wide and a key in the second column
C21_Witness ==
    /\ Visible
    /\ ovTheme[overlay].key_unit_px = 68
    /\ \E n, m \in DOMAIN ovKeys[overlay] :
           /\ ovKeys[overlay][n].w = 2
           /\ ovKeys[overlay][m].x = Scale
           /\ OnCells(ovKeys[overlay][n]) /\ OnCells(ovKeys[overlay][m])

\* the largest number of a set
Largest(S) == CHOOSE m \in S : \A n \in S : n <= m

HasColor(k) == k.color # NoAttr /\ k.color # ""
HasTextColor(k) == k.text_color # NoAttr /\ k.text_color # ""

\* key k is a mouse key
IsMouseKey(k) == StartsWith(k.id, "mouse_")

\* C23: the overlay paints a pressed mouse key in the theme's mouse_pressed
\* colour and any other pressed key in key_pressed, never in the key's own
\* colour; an idle key with a colour of its own in that colour, mouse key or
\* not; an idle mouse key without one in mouse_idle and any other idle key
\* in key_idle; and the label in the key's own text_color if it has one,
\* else in the theme's key_text.
C23_ColourPrecedence ==
    Visible =>
        \A n \in DOMAIN ovKeys[overlay] :
            LET k == ovKeys[overlay][n]
                t == ovTheme[overlay]
                p == Paint(overlay)[n]
                down == k.id \in ovPressed[overlay]
            IN /\ (down /\ IsMouseKey(k)) => p.bg = t.mouse_pressed
               /\ (down /\ ~IsMouseKey(k)) => p.bg = t.key_pressed
               /\ (~down /\ HasColor(k)) => p.bg = k.color
               /\ (~down /\ ~HasColor(k) /\ IsMouseKey(k)) => p.bg = t.mouse_idle
               /\ (~down /\ ~HasColor(k) /\ ~IsMouseKey(k)) => p.bg = t.key_idle
               /\ p.text = (IF HasTextColor(k) THEN k.text_color ELSE t.key_text)

\* the overlay shows a pressed key that has colours of its own next to an
\* idle mouse key that has a colour of its own
C23_Witness ==
    /\ Visible
    /\ \E n, m \in DOMAIN ovKeys[overlay] :
           /\ HasColor(ovKeys[overlay][n]) /\ HasTextColor(ovKeys[overlay][n])
           /\ ~IsMouseKey(ovKeys[overlay][n])
           /\ Paint(overlay)[n].pressed
           /\ HasColor(ovKeys[overlay][m]) /\ IsMouseKey(ovKeys[overlay][m])
           /\ ~Paint(overlay)[m].pressed

\* C24: the overlay takes a layout in which several keys have the same id
\* as it is, neither rejecting it nor dropping keys; and it paints a key as
\* pressed exactly if the key's id is in the pressed-set, so all keys that
\* share a pressed id are painted pressed and no other key is.
C24_DuplicateIdsAllPressed ==
    Visible =>
        /\ ovKeys[overlay] = curKeys
        /\ \A n \in DOMAIN ovKeys[overlay] :
               Paint(overlay)[n].pressed
                   <=> ovKeys[overlay][n].id \in ovPressed[overlay]

\* the overlay shows two keys with one id, which is pressed, and a key with
\* another id, which is not
C24_Witness ==
    /\ Visible
    /\ \E n, m, o \in DOMAIN ovKeys[overlay] :
           /\ n # m
           /\ ovKeys[overlay][n].id = ovKeys[overlay][m].id
           /\ Paint(overlay)[n].pressed /\ Paint(overlay)[m].pressed
           /\ ~Paint(overlay)[o].pressed

-----------------------------------------------------------------------------
(* The theme, the overlay window and the files *)

\* C25 (as claimed): DEFAULT_THEME holds its original values whatever theme
\* edits and resets are made, whether the settings came from a file or were
\* defaulted, so that a reset gives the original values back.
C25_DefaultThemeConstant == defTheme = DefaultTheme

\* MainWindow holds no overlay
Hidden == overlay = NoOverlay

\* C26: the overlay is always either hidden or visible, never both and
\* never neither; a step of the toggle takes it from hidden to visible or
\* from visible to hidden; and a step that loads a layout or changes the
\* theme leaves it as it was: hidden stays hidden, visible stays visible
\* and is the same window.
C26_HiddenOrVisible ==
    [][ /\ Hidden # Visible
        /\ Hidden' # Visible'
        /\ ToggleOverlay => (Hidden <=> Visible')
        /\ (LoadLayout \/ SetTheme \/ OnAlphaChanged \/ OnScaleChanged
                \/ ResetTheme)
              => /\ overlay' = overlay
                 /\ ovState' = ovState
                 /\ nInst' = nInst ]_vars

\* the overlay was shown, hidden and shown again, its theme is not the
\* default one, and a layout was loaded into it while it was up
C26_Witness ==
    /\ Visible
    /\ nInst = 2
    /\ reloaded
    /\ ovTheme[overlay] # DefaultTheme

\* C27 (as claimed): in every step that closes the overlay (the toggle
\* hiding it, the overlay window being closed itself, the application
\* closing with the overlay up) the position the window has at that moment
\* is written to overlay_x and overlay_y of the settings.
C27_PositionRecorded ==
    [][ (Visible /\ (Hidden' \/ appState' = "closing"))
            => /\ settings'.overlay_x = ovPos[overlay][1]
               /\ settings'.overlay_y = ovPos[overlay][2] ]_vars

\* what a failed load or save is claimed to leave alone: the current
\* layout, the keys of every overlay, the editor's working list and
\* selection, and the settings with last_config
Persisted ==
    <<curKeys, curRef, ovKeys, ovRef, edKeys, edRef, edSel, settings>>

\* C28: a save_config that fails during an editor save is a False the
\* handler reads, and the step changes neither the current layout, nor the
\* overlay's keys, nor the editor's working list, nor last_config, and
\* loads nothing; a load_config that finds no config, or an unreadable one,
\* is a None the handler reads, and the step leaves the current layout and
\* the rest unchanged.
C28_FailureChangesNothing ==
    [][ /\ EditorSaveWith(FALSE) => UNCHANGED Persisted
        /\ LoadConfigFails => UNCHANGED Persisted ]_vars

\* a config failed to load and an editor save failed, the overlay being up
\* and the editor holding a key the current layout does not have
C28_Witness ==
    /\ loadFailed
    /\ edLast.op = "get"
    /\ Visible
    /\ Len(edKeys) > Len(curKeys)
    /\ settings.last_config = CfgName

\* the lists the window, the editor and the overlays hold, and the one
\* get_keys() returned last
HeldLists == {curRef, edRef, retRef} \cup { ovRef[i] : i \in Insts }

\* C29: the built-in preset's key data is only read: whatever presets and
\* configs are loaded, whatever the editor then does to the keys, whatever
\* is saved, the preset holds the keys it was defined with; no list the
\* program holds, and no list preset_to_config returns, is the preset's
\* list or holds one of its dicts.
C29_PresetsReadOnly ==
    /\ presetKeys = PresetKeys
    /\ \A st \in HeldLists : ~Shares(st, PresetStore)
    /\ ~Shares(PresetToConfig, PresetStore)

\* the preset was loaded, its keys were edited, and the edited layout was
\* saved and is the current one
C29_Witness ==
    /\ settings.last_config = SaveName
    /\ Len(curKeys) = Len(PresetKeys)
    /\ curKeys[2].id = "shift"
    /\ curKeys # PresetKeys
    /\ retKeys = curKeys

-----------------------------------------------------------------------------
(* Normalisation *)

\* the event a capture thread passed to the callback last
LastEmitted(c) == emitLog[c][Len(emitLog[c])]

HasChar(key) == key.char # NoAttr /\ key.char # ""

\* a non-empty string that str.lower() leaves as it is
Canonical(s) == s # "" /\ Lower(s) = s

\* C30: every raw event is passed on under a canonical id: a key with a
\* printable character under that character in lowercase, a key without a
\* character under its special-key name in lowercase, a mouse button under
\* "mouse_" and the button's name in lowercase; the id is always a
\* non-empty lowercase string.
C30_CanonicalIds ==
    [][ /\ \A key \in AllKbKeys, pr \in BOOLEAN :
              EmitKb(key, pr) =>
                  /\ LastEmitted("kb")'.id =
                         IF HasChar(key) THEN Lower(key.char)
                         ELSE Lower(key.name)
                  /\ Canonical(LastEmitted("kb")'.id)
        /\ \A b \in AllButtons, pr \in BOOLEAN :
              EmitMs(b, pr) =>
                  /\ LastEmitted("ms")'.id = "mouse_" \o Lower(b.name)
                  /\ Canonical(LastEmitted("ms")'.id) ]_vars

-----------------------------------------------------------------------------
(* The editor's save *)

\* C31: the editor's save emits a list equal in content and order to the
\* working list, a list of its own; the working list has the same content
\* after the step as before; the emitted list is the one the window hands
\* to save_config, unmodified, so what a successful save makes the current
\* layout equals it; and when the file is not written, the settings are as
\* they were: nothing is stored by the editor's emission alone.
C31_SaveEmitsWorkingList ==
    [][ \A saved \in BOOLEAN :
            EditorSaveWith(saved) =>
                /\ retKeys' = edKeys
                /\ edKeys' = edKeys
                /\ ~Shares(retRef', edRef)
                /\ ~Shares(retRef', edRef')
                /\ saved => curKeys' = retKeys'
                /\ ~saved => UNCHANGED <<settings, curKeys>> ]_vars

\* the editor has saved a working list that holds a key added since the
\* last load, and the save went through
C31_Witness ==
    /\ settings.last_config = SaveName
    /\ retKeys = edKeys
    /\ retKeys = curKeys
    /\ \E i \in DOMAIN retKeys : retKeys[i].id \in GenIds

-----------------------------------------------------------------------------
(* Press and release of one physical key *)

\* C32: for every physical key, the id passed on at its release is the id
\* passed on at its press, whatever happened to shift in between; so when
\* no key is held and every event has reached a visible overlay, that
\* overlay shows no key as pressed.
C32_ReleaseIdIsPressId ==
    /\ [][ \A k \in PhysKeys :
              (Held(k) /\ EmitKb(RawKey(k), FALSE))
              => LastEmitted("kb")'.id = EventsOf(k)[Len(EventsOf(k))].id ]_vars
    /\ []((Visible /\ queue = <<>> /\ \A k \in PhysKeys : ~Held(k))
          => ovPressed[overlay] = {})

-----------------------------------------------------------------------------
(* start() again *)

\* C33: start() is ignored only while the listener is running: a start()
\* called when neither listener is running, after a stop() or after a
\* start() whose two attachments both failed, is not ignored and tries to
\* attach the keyboard and the mouse listener again.
C33_StartAgainAttaches ==
    [][ \A kbOut \in AttachOutcomes, msOut \in AttachOutcomes :
            (ApplyStart(kbOut, msOut) /\ kb # "running" /\ ms # "running")
            => (~lastCall'.ignored /\ lastCall'.kbTried /\ lastCall'.msTried)
      ]_vars

-----------------------------------------------------------------------------
(* What the overlay shows *)

\* C34: whenever the overlay is visible, the key list it displays is the
\* current layout, the one loaded or saved last, and its theme is the
\* application's theme, whatever loads, editor saves, theme edits, opacity
\* and key-size changes, theme resets, shows and hides came before; keys
\* the editor holds unsaved are not displayed.
C34_OverlayShowsCurrent ==
    Visible => /\ ovKeys[overlay] = curKeys
               /\ ovTheme[overlay] = theme
               /\ ovSize[overlay] = ComputeGeometry(curKeys, theme)

\* a visible overlay after a theme edit, with a layout saved from the
\* editor, while the editor holds a key added since
C34_Witness ==
    /\ Visible
    /\ theme # DefaultTheme
    /\ settings.last_config = SaveName
    /\ Len(edKeys) > Len(curKeys)
    /\ Len(curKeys) > Len(PresetKeys)

-----------------------------------------------------------------------------
(* Key events and an overlay that is not up *)

\* C35: a key event that is delivered while no overlay is visible changes
\* nothing the program holds; an overlay that becomes visible starts with
\* an empty pressed-set, so a key that went down before is not shown as
\* pressed; and a release of a key that is not in the pressed-set leaves
\* the set as it is and asks for no repaint.
C35_NoOverlayNoEffect ==
    /\ [][ (Len(handled') > Len(handled) /\ KeyEventTarget = NoOverlay)
           => UNCHANGED <<appState, listenerVars, overlayVars, layoutVars,
                          confVars, accessors>> ]_vars
    /\ [][ \A i \in Insts :
              (ovState[i] # "visible" /\ ovState'[i] = "visible")
              => ovPressed'[i] = {} ]_vars
    /\ [](\A j \in DOMAIN handled :
             (handled[j].target # NoOverlay /\ ~handled[j].pressed
              /\ handled[j].id \notin handled[j].before)
             => (handled[j].after = handled[j].before /\ ~handled[j].repaint))

\* a key went down with no overlay up, the overlay was shown, and the
\* key's release reached it
C35_Witness ==
    /\ Visible
    /\ ovPressed[overlay] = {}
    /\ \E k \in DOMAIN handled, j \in DOMAIN handled :
           /\ k < j
           /\ handled[k].target = NoOverlay /\ handled[k].pressed
           /\ handled[j].target = overlay /\ ~handled[j].pressed
           /\ handled[j].id = handled[k].id
           /\ handled[j].before = {}

-----------------------------------------------------------------------------
(* The editor's selection and drag target *)

\* C36: in every state of the editor the selection is absent or is one of
\* the key objects of the working list, never a key that was deleted or a
\* key of a list that was replaced, whatever order load_keys, add_key,
\* delete_selected, update_selected and pointer presses, moves and releases
\* come in.
C36_SelectionInList == edSel = NoSel \/ edSel \in Range(edRef.objs)

\* a key was selected by a press and add_key then selected the key it
\* appended
C36_Witness ==
    /\ edLast.op = "add"
    /\ edLast.sel # NoSel
    /\ edSel # NoSel
    /\ edSel # edLast.sel
    /\ edSel = edRef.objs[Len(edRef.objs)]

\* C37: the drag target of the editor is absent or is a key of the working
\* list: a load_keys or a delete_selected between a pointer press and its
\* release leaves no drag target that is no longer in the list, so a
\* pointer move writes to no key outside the list and reports no such key
\* as the selection.
C37_DragTargetInList == edDrag = NoSel \/ edDrag \in Range(edRef.objs)

-----------------------------------------------------------------------------
(* The editor's check boxes *)

\* C38: the canvas's snap-to-grid mode is the state of the editor's "Snap
\* to grid" check box, after any sequence of clicks on the check box and
\* theme changes handed to the editor (and likewise the grid's visibility
\* and the "Show grid" check box).
C38_SnapIsCheckBox == snap = snapBox

====
